---- MODULE Spec2Model ----
(***************************************************************************)
(* Model of gitty, the terminal git helper (4-tab variant,                 *)
(* src/unnamed/part_000; the command runner is shared with src/main.go).   *)
(*                                                                         *)
(* The dispatcher is Update: a function of (model, message) that returns   *)
(* the new model and the commands it issues.  The handlers are operators   *)
(* on the model record m, as the Go methods are functions of the value     *)
(* receiver m.  The command runner executeGitCommand is a separate small   *)
(* process, stepped one statement at a time under SpecRunner.              *)
(*                                                                         *)
(* Conventions.                                                            *)
(*  - A text input is its pair (focused, value).  Update routes every      *)
(*    tea.KeyMsg to handleKeyPress, and no handler forwards a key to a     *)
(*    text input, so the only writes to a value are the SetValue("")       *)
(*    calls of the handlers.                                               *)
(*  - A table is its cursor; the row count is the length of the list the   *)
(*    table shows.  The cursor stays within 0 .. rows-1 (0 when empty).    *)
(*  - statusExpiry is the time left until the status message expires,      *)
(*    in seconds (statusExpiry - time.Now() of the source, floored at 0).  *)
(*  - A status text is modelled by a short identifier of the literal.      *)
(*  - A porcelain status "XY" is the pair <<X, Y>> of its two characters.  *)
(***************************************************************************)
EXTENDS Integers, Sequences, FiniteSets, Bags, TLC

VARIABLES m, cmds, prev, tasks, watch, ct, gs, fa, sg, an, wt,
          attempt, retryDelay, rpc, lockFile, gitOutcome, result, waits,
          invocations, hist

vars == <<m, cmds, prev, tasks, watch, ct, gs, fa, sg, an, wt,
          attempt, retryDelay, rpc, lockFile, gitOutcome, result, waits,
          invocations, hist>>

taskVars == <<tasks, watch>>
uiVars == <<m, cmds, prev, taskVars>>
pureVars == <<gs, fa, sg, an, wt>>
auxVars == <<ct, pureVars>>
runnerVars == <<attempt, retryDelay, rpc, lockFile, gitOutcome, result, waits,
                invocations, hist>>

\* ------------------------------------------------------------------------
\* Bounds
\* ------------------------------------------------------------------------
MaxStaged == 1
MaxChanges == 1
MaxSuggestions == 1
MaxConflicts == 1
MaxCommits == 1
TickSeconds == 15

Max(a, b) == IF a > b THEN a ELSE b
Min(a, b) == IF a < b THEN a ELSE b

\* ------------------------------------------------------------------------
\* Status texts (identifiers of the literals in the source)
\* ------------------------------------------------------------------------
NoStatus == ""
MsgNoStaged == "no-files-staged"
MsgCancelled == "action-cancelled"
MsgDebugNav == "debug-passing-key"
MsgResolveAll == "resolve-all-conflicts"
MsgCannotDeleteCurrent == "cannot-delete-current"
MsgConfirmDelete == "confirm-delete"
MsgConfirmSoft == "confirm-soft-reset"
MsgConfirmMixed == "confirm-mixed-reset"
MsgConfirmHard == "confirm-hard-reset"
MsgInvalidCount == "invalid-count"
MsgConfirmRebase == "confirm-rebase"
MsgHash == "hash"
MsgPushed == "pushed"
MsgTaskOk == "task-ok"
MsgTaskFailed == "task-failed"

\* ------------------------------------------------------------------------
\* Confirmation tokens (model.confirmAction)
\* ------------------------------------------------------------------------
NoToken == ""
TokSoft == "soft-reset"
TokMixed == "mixed-reset"
TokHard == "hard-reset"
TokRebase == "execute-rebase"
DeletePrefix == "delete-branch:"
BranchNames == {"dev", "main"}

\* "delete-branch:" + name
DeleteToken(name) == DeletePrefix \o name
\* strings.HasPrefix(tok, "delete-branch:")
HasDeletePrefix(tok) == \E b \in BranchNames : tok = DeleteToken(b)
\* strings.TrimPrefix(tok, "delete-branch:")
TrimDeletePrefix(tok) == CHOOSE b \in BranchNames : tok = DeleteToken(b)

\* ------------------------------------------------------------------------
\* Commands: the closures returned by the command constructors, named by
\* constructor and captured argument.
\* ------------------------------------------------------------------------
Cmd(op, arg) == [op |-> op, arg |-> arg]
NoCmds == {}
DestructiveOps == {"softReset", "mixedReset", "hardReset", "deleteBranch",
                   "executeRebase"}

R(mm, cs) == [m |-> mm, cmds |-> cs]


\* ------------------------------------------------------------------------
\* Widgets
\* ------------------------------------------------------------------------
\* textinput.New(): blurred and empty
NewInput == [focused |-> FALSE, value |-> ""]

\* table.Model.Update(key) of a focused table with n rows: the cursor moves
\* one row on up/k and down/j, to the first row on the page-up keys and to
\* the last row on the page-down keys (tables here are shorter than half a
\* page); every other key leaves it alone.
TableUpdate(cursor, n, key) ==
    CASE key \in {"up", "k"} -> Max(cursor - 1, 0)
      [] key \in {"down", "j"} -> Min(cursor + 1, Max(n - 1, 0))
      [] key \in {"b", "u", "g"} -> 0
      [] key \in {"f", " ", "d", "G"} -> Max(n - 1, 0)
      [] OTHER -> cursor

\* table.Model.SetRows(rows): the cursor is kept within the new rows
SetRows(cursor, n) == IF cursor > n - 1 THEN Max(n - 1, 0) ELSE cursor

ToolsRows == 4
UndoRows == 4

\* ------------------------------------------------------------------------
\* initialModel
\* ------------------------------------------------------------------------
initialModel ==
    [tab |-> "workspace", toolMode |-> "menu", viewMode |-> "files",
     changes |-> <<>>, suggestions |-> <<>>,
     gitState |-> [StagedFiles |-> 0],
     branches |-> <<>>, commits |-> <<>>, conflicts |-> <<>>,
     branchComparison |-> FALSE, rebaseCommits |-> <<>>,
     filesTable |-> 0, branchesTable |-> 0, toolsTable |-> 0,
     historyTable |-> 0, conflictsTable |-> 0, rebaseTable |-> 0,
     undoTable |-> 0,
     commitInput |-> NewInput, branchInput |-> NewInput,
     rebaseInput |-> NewInput,
     statusMsg |-> NoStatus, statusExpiry |-> 0,
     showDiffPreview |-> TRUE, selectedSuggestion |-> 0,
     confirmAction |-> NoToken]

\* model.Init: the commands issued at start
InitCmds == {Cmd("loadGitChanges", ""), Cmd("loadGitStatus", ""),
             Cmd("loadRecentCommits", "")}

\* m.statusMsg = text; m.statusExpiry = time.Now().Add(secs)
SetStatus(mm, text, secs) ==
    [mm EXCEPT !.statusMsg = text, !.statusExpiry = secs]

\* (faulty variant: the rebase input does not count as a focused input)
anyInputFocusedIgnoresRebase(mm) ==
    mm.commitInput.focused \/ mm.branchInput.focused

anyInputFocused(mm) ==
    mm.commitInput.focused \/ mm.branchInput.focused \/ mm.rebaseInput.focused

hasConflicts(mm) ==
    \E i \in 1..Len(mm.changes) :
        LET st == mm.changes[i].Status IN
        \/ \E j \in 1..Len(st) : st[j] = "U"
        \/ /\ \E j \in 1..Len(st) : st[j] = "A"
           /\ \E j \in 1..Len(st) : st[j] = "A"

\* (faulty variant: the last line alone, without the loop over the entries)
allConflictsResolvedAlways(mm) ==
    Len(mm.conflicts) = 0 \/ Len(mm.conflicts) > 0

allConflictsResolved(mm) ==
    IF \E i \in 1..Len(mm.conflicts) : ~mm.conflicts[i].IsResolved
    THEN FALSE
    ELSE Len(mm.conflicts) = 0 \/ Len(mm.conflicts) > 0

refreshAfterCommit == Cmd("refreshAfterCommit", "")
refreshAfterStaging == Cmd("refreshAfterStaging", "")


\* ------------------------------------------------------------------------
\* Key handlers.  Each returns R(model, commands).
\* ------------------------------------------------------------------------
\* (faulty variant: blurring the commit input keeps the selection)
blurInputKeepsSelection(mm) ==
    IF mm.commitInput.focused
    THEN R([mm EXCEPT !.commitInput.focused = FALSE], NoCmds)
    ELSE IF mm.branchInput.focused
    THEN R([mm EXCEPT !.branchInput = [focused |-> FALSE, value |-> ""]],
           NoCmds)
    ELSE R([mm EXCEPT !.rebaseInput = [focused |-> FALSE, value |-> ""]],
           NoCmds)

\* handleEscape, "Blur any focused inputs" (some input is focused)
blurInput(mm) ==
    IF mm.commitInput.focused
    THEN R([mm EXCEPT !.commitInput.focused = FALSE,
                      !.selectedSuggestion = 0], NoCmds)
    ELSE IF mm.branchInput.focused
    THEN R([mm EXCEPT !.branchInput = [focused |-> FALSE, value |-> ""]],
           NoCmds)
    ELSE R([mm EXCEPT !.rebaseInput = [focused |-> FALSE, value |-> ""]],
           NoCmds)

\* the conditions of handleEscape's "Exit sub-modes"
subModeOpen(mm) ==
    \/ mm.viewMode = "diff"
    \/ mm.branchComparison
    \/ (mm.tab = "tools" /\ mm.toolMode # "menu")

\* (faulty variant: one escape closes every open sub-view)
exitSubModeAll(mm) ==
    R([mm EXCEPT !.viewMode = IF @ = "diff" THEN "files" ELSE @,
                 !.branchComparison = FALSE,
                 !.toolMode = IF mm.tab = "tools" THEN "menu" ELSE @], NoCmds)

\* (faulty variant: closing the diff view also drops the confirmation)
exitSubModeDropsToken(mm) ==
    IF mm.viewMode = "diff"
    THEN R([mm EXCEPT !.viewMode = "files", !.confirmAction = NoToken], NoCmds)
    ELSE IF mm.branchComparison
    THEN R([mm EXCEPT !.branchComparison = FALSE], NoCmds)
    ELSE R([mm EXCEPT !.toolMode = "menu",
                      !.toolsTable = SetRows(mm.toolsTable, ToolsRows)], NoCmds)

\* handleEscape, "Exit sub-modes" (some sub-mode is open)
exitSubMode(mm) ==
    IF mm.viewMode = "diff"
    THEN R([mm EXCEPT !.viewMode = "files"], NoCmds)
    ELSE IF mm.branchComparison
    THEN R([mm EXCEPT !.branchComparison = FALSE], NoCmds)
    ELSE R([mm EXCEPT !.toolMode = "menu",
                      !.toolsTable = SetRows(mm.toolsTable, ToolsRows)], NoCmds)

\* handleEscape, "Clear confirmation"
clearConfirmation(mm) ==
    IF mm.confirmAction # NoToken
    THEN R(SetStatus([mm EXCEPT !.confirmAction = NoToken], MsgCancelled, 2),
           NoCmds)
    ELSE R(mm, NoCmds)

handleEscape(mm) ==
    IF anyInputFocused(mm) THEN blurInput(mm)
    ELSE IF subModeOpen(mm) THEN exitSubMode(mm)
    ELSE clearConfirmation(mm)

\* resolveConflict(index, resolution): the task resolves m.conflicts[index]
resolveConflict(mm, index, resolution) ==
    Cmd("resolveConflict", resolution \o ":" \o mm.conflicts[index + 1].Path)

handleConflictKeys(mm, key) ==
    IF Len(mm.conflicts) = 0 THEN R(mm, NoCmds)
    ELSE IF mm.conflictsTable >= Len(mm.conflicts) THEN R(mm, NoCmds)
    ELSE CASE key = "o" ->
                R(mm, {resolveConflict(mm, mm.conflictsTable, "ours")})
           [] key = "t" ->
                R(mm, {resolveConflict(mm, mm.conflictsTable, "theirs")})
           [] key = "b" ->
                R(mm, {resolveConflict(mm, mm.conflictsTable, "both")})
           [] key = "enter" -> R(mm, NoCmds)
           [] key = "c" ->
                IF allConflictsResolved(mm)
                THEN R(mm, {Cmd("continueMerge", "")})
                ELSE R(SetStatus(mm, MsgResolveAll, 3), NoCmds)
           [] OTHER ->
                R([mm EXCEPT !.conflictsTable =
                       TableUpdate(mm.conflictsTable, Len(mm.conflicts), key)],
                  NoCmds)

handleWorkspaceKeys(mm, key) ==
    IF mm.viewMode = "conflicts" THEN handleConflictKeys(mm, key)
    ELSE
    CASE key = " " ->
           IF Len(mm.changes) > 0 /\ mm.filesTable < Len(mm.changes)
           THEN R(mm, {Cmd("toggleStaging", mm.changes[mm.filesTable + 1].File)})
           ELSE R(mm, NoCmds)
      [] key = "a" -> R(mm, {Cmd("gitAddAll", ""), refreshAfterStaging})
      [] key = "r" -> R(mm, {Cmd("loadGitChanges", ""), Cmd("loadGitStatus", "")})
      [] key = "v" ->
           LET m1 == [mm EXCEPT !.showDiffPreview = ~mm.showDiffPreview] IN
           IF m1.showDiffPreview /\ Len(m1.changes) > 0
                                 /\ m1.filesTable < Len(m1.changes)
           THEN R(m1, {Cmd("viewDiff", m1.changes[m1.filesTable + 1].File)})
           ELSE R(m1, NoCmds)
      [] key = "d" ->
           IF Len(mm.changes) > 0 /\ mm.filesTable < Len(mm.changes)
           THEN R([mm EXCEPT !.viewMode = "diff"],
                  {Cmd("viewDiff", mm.changes[mm.filesTable + 1].File)})
           ELSE R(mm, NoCmds)
      [] key = "R" -> R(mm, {Cmd("gitReset", ""), refreshAfterStaging})
      [] OTHER ->
           LET m1 == IF key \in {"up", "down"}
                     THEN SetStatus(mm, MsgDebugNav, 1) ELSE mm IN
           R([m1 EXCEPT !.filesTable =
                  TableUpdate(mm.filesTable, Len(mm.changes), key)], NoCmds)

handleCommitKeys(mm, key) ==
    IF mm.commitInput.focused
    THEN IF key = "enter" /\ mm.commitInput.value # ""
         THEN R([mm EXCEPT !.commitInput = [focused |-> FALSE, value |-> ""],
                           !.selectedSuggestion = 0],
                {Cmd("commitWithMessage", mm.commitInput.value),
                 refreshAfterCommit})
         ELSE R(mm, NoCmds)
    ELSE IF key \in {"up", "k"}
    THEN R(IF mm.selectedSuggestion > 0
           THEN [mm EXCEPT !.selectedSuggestion = mm.selectedSuggestion - 1]
           ELSE mm, NoCmds)
    ELSE IF key \in {"down", "j"}
    THEN R(IF mm.selectedSuggestion < Len(mm.suggestions)
           THEN [mm EXCEPT !.selectedSuggestion = mm.selectedSuggestion + 1]
           ELSE mm, NoCmds)
    ELSE IF key \in {"enter", " "} /\ mm.selectedSuggestion > 0
    THEN IF mm.selectedSuggestion <= Len(mm.suggestions)
         THEN R(mm, {Cmd("commitWithMessage",
                         mm.suggestions[mm.selectedSuggestion].Message),
                     refreshAfterCommit})
         ELSE R(mm, NoCmds)
    ELSE IF key = "c" \/ (key = "enter" /\ mm.selectedSuggestion = 0)
    THEN R([mm EXCEPT !.commitInput.focused = TRUE,
                      !.selectedSuggestion = -1], NoCmds)
    ELSE R(mm, NoCmds)

\* the target of "compare": main if the list has it, else master if it has
\* it, else main
compareTarget(mm) ==
    IF \E i \in 1..Len(mm.branches) : mm.branches[i].Name = "main" THEN "main"
    ELSE IF \E i \in 1..Len(mm.branches) : mm.branches[i].Name = "master"
    THEN "master" ELSE "main"

handleBranchesKeys(mm, key) ==
    IF mm.branchInput.focused
    THEN IF key = "enter" /\ mm.branchInput.value # ""
         THEN R([mm EXCEPT !.branchInput = [focused |-> FALSE, value |-> ""]],
                {Cmd("createBranch", mm.branchInput.value)})
         ELSE R(mm, NoCmds)
    ELSE IF mm.branchComparison
    THEN R(mm, NoCmds)
    ELSE
    CASE key = "enter" ->
           IF /\ Len(mm.branches) > 0
              /\ mm.branchesTable < Len(mm.branches)
              /\ ~mm.branches[mm.branchesTable + 1].IsCurrent
           THEN R(mm, {Cmd("switchBranch", mm.branches[mm.branchesTable + 1].Name)})
           ELSE R(mm, NoCmds)
      [] key = "n" -> R([mm EXCEPT !.branchInput.focused = TRUE], NoCmds)
      [] key = "d" ->
           IF Len(mm.branches) > 0 /\ mm.branchesTable < Len(mm.branches)
           THEN LET branch == mm.branches[mm.branchesTable + 1] IN
                IF branch.IsCurrent
                THEN R(SetStatus(mm, MsgCannotDeleteCurrent, 3), NoCmds)
                ELSE R(SetStatus([mm EXCEPT !.confirmAction =
                                      DeleteToken(branch.Name)],
                                 MsgConfirmDelete, 10), NoCmds)
           ELSE R(mm, NoCmds)
      [] key = "y" ->
           IF HasDeletePrefix(mm.confirmAction)
           THEN R([mm EXCEPT !.confirmAction = NoToken],
                  {Cmd("deleteBranch", TrimDeletePrefix(mm.confirmAction))})
           ELSE R(mm, NoCmds)
      [] key = "c" -> R(mm, {Cmd("loadBranchComparison", compareTarget(mm))})
      [] key = "r" -> R(mm, {Cmd("loadBranches", "")})
      [] OTHER ->
           R([mm EXCEPT !.branchesTable =
                  TableUpdate(mm.branchesTable, Len(mm.branches), key)], NoCmds)


handleToolsMenuKeys(mm, key) ==
    IF key = "enter"
    THEN CASE mm.toolsTable = 0 -> R([mm EXCEPT !.toolMode = "undo"], NoCmds)
           [] mm.toolsTable = 1 ->
                R([mm EXCEPT !.toolMode = "rebase",
                             !.rebaseInput.focused = TRUE], NoCmds)
           [] mm.toolsTable = 2 ->
                R([mm EXCEPT !.toolMode = "history"], {Cmd("loadHistory", "")})
           [] mm.toolsTable = 3 -> R([mm EXCEPT !.toolMode = "remote"], NoCmds)
           [] OTHER -> R(mm, NoCmds)
    ELSE R([mm EXCEPT !.toolsTable = TableUpdate(mm.toolsTable, ToolsRows, key)],
           NoCmds)

\* (faulty variant: the confirmed reset leaves the token in place)
confirmUndoKeepsToken(mm) ==
    CASE mm.confirmAction = TokSoft -> R(mm, {Cmd("softReset", "HEAD~1")})
      [] mm.confirmAction = TokMixed -> R(mm, {Cmd("mixedReset", "HEAD~1")})
      [] mm.confirmAction = TokHard -> R(mm, {Cmd("hardReset", "HEAD~1")})
      [] OTHER -> R(mm, NoCmds)

\* handleUndoKeys, "Handle confirmation" (the key is "y")
confirmUndo(mm) ==
    CASE mm.confirmAction = TokSoft ->
           R([mm EXCEPT !.confirmAction = NoToken], {Cmd("softReset", "HEAD~1")})
      [] mm.confirmAction = TokMixed ->
           R([mm EXCEPT !.confirmAction = NoToken], {Cmd("mixedReset", "HEAD~1")})
      [] mm.confirmAction = TokHard ->
           R([mm EXCEPT !.confirmAction = NoToken], {Cmd("hardReset", "HEAD~1")})
      [] OTHER -> R(mm, NoCmds)

handleUndoKeys(mm, key) ==
    IF key = "enter"
    THEN CASE mm.undoTable = 0 ->
                R(SetStatus([mm EXCEPT !.confirmAction = TokSoft],
                            MsgConfirmSoft, 10), NoCmds)
           [] mm.undoTable = 1 ->
                R(SetStatus([mm EXCEPT !.confirmAction = TokMixed],
                            MsgConfirmMixed, 10), NoCmds)
           [] mm.undoTable = 2 ->
                R(SetStatus([mm EXCEPT !.confirmAction = TokHard],
                            MsgConfirmHard, 15), NoCmds)
           [] mm.undoTable = 3 -> R(mm, {Cmd("loadReflog", "")})
           [] OTHER -> R(mm, NoCmds)
    ELSE IF key = "y" THEN confirmUndo(mm)
    ELSE R([mm EXCEPT !.undoTable = TableUpdate(mm.undoTable, UndoRows, key)],
           NoCmds)

\* strconv.Atoi of the count input, accepted when 0 < count <= 50.  The
\* input is a string of digits here; "" is handled by the caller.
RebaseCounts == {"1", "50"}
validCount(str) == str \in RebaseCounts

\* m.rebaseCommits[selectedIndex].Action = action
setRebaseAction(mm, action) ==
    R([mm EXCEPT !.rebaseCommits[mm.rebaseTable + 1].Action = action], NoCmds)

handleRebaseKeys(mm, key) ==
    IF mm.rebaseInput.focused
    THEN IF key = "enter" /\ mm.rebaseInput.value # ""
         THEN IF validCount(mm.rebaseInput.value)
              THEN R([mm EXCEPT !.rebaseInput =
                          [focused |-> FALSE, value |-> ""]],
                     {Cmd("loadRebaseCommits", mm.rebaseInput.value)})
              ELSE R(SetStatus(mm, MsgInvalidCount, 3), NoCmds)
         ELSE R(mm, NoCmds)
    ELSE IF Len(mm.rebaseCommits) > 0
    THEN IF mm.rebaseTable >= Len(mm.rebaseCommits) THEN R(mm, NoCmds)
         ELSE CASE key = "p" -> setRebaseAction(mm, "pick")
                [] key = "s" -> setRebaseAction(mm, "squash")
                [] key = "r" -> setRebaseAction(mm, "reword")
                [] key = "d" -> setRebaseAction(mm, "drop")
                [] key = "f" -> setRebaseAction(mm, "fixup")
                [] key = "enter" ->
                     R(SetStatus([mm EXCEPT !.confirmAction = TokRebase],
                                 MsgConfirmRebase, 10), NoCmds)
                [] key = "y" ->
                     IF mm.confirmAction = TokRebase
                     THEN R([mm EXCEPT !.confirmAction = NoToken],
                            {Cmd("executeRebase", "")})
                     ELSE R(mm, NoCmds)
                [] OTHER ->
                     R([mm EXCEPT !.rebaseTable =
                            TableUpdate(mm.rebaseTable, Len(mm.rebaseCommits),
                                        key)], NoCmds)
    ELSE R(mm, NoCmds)

handleHistoryKeys(mm, key) ==
    CASE key = "r" -> R(mm, {Cmd("loadHistory", "")})
      [] key = "c" ->
           IF Len(mm.commits) > 0 /\ mm.historyTable < Len(mm.commits)
           THEN R(SetStatus(mm, MsgHash, 5), NoCmds)
           ELSE R(mm, NoCmds)
      [] OTHER ->
           R([mm EXCEPT !.historyTable =
                  TableUpdate(mm.historyTable, Len(mm.commits), key)], NoCmds)

handleRemoteKeys(mm, key) ==
    CASE key = "p" -> R(mm, {Cmd("gitPush", "")})
      [] key = "l" -> R(mm, {Cmd("gitPull", "")})
      [] key = "f" -> R(mm, {Cmd("gitFetch", "")})
      [] OTHER -> R(mm, NoCmds)

handleToolsKeys(mm, key) ==
    CASE mm.toolMode = "menu" -> handleToolsMenuKeys(mm, key)
      [] mm.toolMode = "undo" -> handleUndoKeys(mm, key)
      [] mm.toolMode = "rebase" -> handleRebaseKeys(mm, key)
      [] mm.toolMode = "history" -> handleHistoryKeys(mm, key)
      [] mm.toolMode = "remote" -> handleRemoteKeys(mm, key)
      [] OTHER -> R(mm, NoCmds)

\* tea.Quit
QuitCmd == Cmd("quit", "")

\* handleKeyPress, case "1"
enterWorkspace(mm) ==
    R([mm EXCEPT !.tab = "workspace", !.viewMode = "files"], NoCmds)

\* (faulty variants: the commit tab opens with nothing staged; it opens only with
\* more than one file staged)
enterCommitUnguarded(mm) ==
    R([mm EXCEPT !.tab = "commit", !.selectedSuggestion = 0], NoCmds)
enterCommitOffByOne(mm) ==
    IF mm.gitState.StagedFiles >= 0
    THEN R([mm EXCEPT !.tab = "commit", !.selectedSuggestion = 0], NoCmds)
    ELSE R(SetStatus(mm, MsgNoStaged, 3), NoCmds)

\* handleKeyPress, case "2"
enterCommit(mm) ==
    IF mm.gitState.StagedFiles > 0
    THEN R([mm EXCEPT !.tab = "commit", !.selectedSuggestion = 0], NoCmds)
    ELSE R(SetStatus(mm, MsgNoStaged, 3), NoCmds)

\* (faulty variant: entering the branches tab drops the confirmation)
enterBranchesDropsToken(mm) ==
    R([mm EXCEPT !.tab = "branches", !.branchComparison = FALSE,
                 !.confirmAction = NoToken], {Cmd("loadBranches", "")})

\* handleKeyPress, case "3"
enterBranches(mm) ==
    R([mm EXCEPT !.tab = "branches", !.branchComparison = FALSE],
      {Cmd("loadBranches", "")})

\* (faulty variant: the tools tab reopens in the sub-mode it was left in)
enterToolsKeepsMode(mm) ==
    R([mm EXCEPT !.tab = "tools",
                 !.toolsTable = SetRows(mm.toolsTable, ToolsRows)], NoCmds)

\* handleKeyPress, case "4"
enterTools(mm) ==
    R([mm EXCEPT !.tab = "tools", !.toolMode = "menu",
                 !.toolsTable = SetRows(mm.toolsTable, ToolsRows)], NoCmds)

\* handleKeyPress, "Tab switching (1-4)" (no input focused)
switchTab(mm, key) ==
    CASE key = "1" -> enterWorkspace(mm)
      [] key = "2" -> enterCommit(mm)
      [] key = "3" -> enterBranches(mm)
      [] key = "4" -> enterTools(mm)

\* (faulty variant: ctrl+c is ignored, like q, while an input is focused)
isQuitKeyUnfocusedOnly(mm, key) ==
    (key = "ctrl+c" \/ key = "q") /\ ~anyInputFocused(mm)

\* handleKeyPress, "Global quit"
isQuitKey(mm, key) ==
    key = "ctrl+c" \/ (key = "q" /\ ~anyInputFocused(mm))

handleKeyPress(mm, key) ==
    IF key = "esc" THEN handleEscape(mm)
    ELSE IF isQuitKey(mm, key)
    THEN R(mm, {QuitCmd})
    ELSE IF ~anyInputFocused(mm) /\ key \in {"1", "2", "3", "4"}
    THEN switchTab(mm, key)
    ELSE CASE mm.tab = "workspace" -> handleWorkspaceKeys(mm, key)
           [] mm.tab = "commit" -> handleCommitKeys(mm, key)
           [] mm.tab = "branches" -> handleBranchesKeys(mm, key)
           [] mm.tab = "tools" -> handleToolsKeys(mm, key)
           [] OTHER -> R(mm, NoCmds)


\* ------------------------------------------------------------------------
\* Update: the dispatcher.  A message is a record with a type and, for the
\* types that carry one, a payload.
\* ------------------------------------------------------------------------
Update(mm, msg) ==
    CASE msg.type = "key" -> handleKeyPress(mm, msg.key)
      [] msg.type = "gitChangesMsg" ->
           LET m1 == [mm EXCEPT !.changes = msg.payload,
                                !.filesTable =
                                    SetRows(mm.filesTable, Len(msg.payload))] IN
           IF hasConflicts(m1)
           THEN R(m1, {Cmd("loadConflicts", "")})
           ELSE R(m1, {Cmd("generateCommitSuggestions", "")})
      [] msg.type = "commitSuggestionsMsg" ->
           R([mm EXCEPT !.suggestions = msg.payload], NoCmds)
      [] msg.type = "gitStatusMsg" ->
           R([mm EXCEPT !.gitState = msg.payload], NoCmds)
      [] msg.type = "branchesMsg" ->
           R([mm EXCEPT !.branches = msg.payload,
                        !.branchesTable =
                            SetRows(mm.branchesTable, Len(msg.payload))], NoCmds)
      [] msg.type = "commitsMsg" ->
           R([mm EXCEPT !.commits = msg.payload,
                        !.historyTable =
                            SetRows(mm.historyTable, Len(msg.payload))], NoCmds)
      [] msg.type = "conflictsMsg" ->
           LET m1 == [mm EXCEPT !.conflicts = msg.payload,
                                !.conflictsTable =
                                    SetRows(mm.conflictsTable, Len(msg.payload))] IN
           R(IF Len(m1.conflicts) > 0
             THEN [m1 EXCEPT !.viewMode = "conflicts"] ELSE m1, NoCmds)
      [] msg.type = "comparisonMsg" ->
           R([mm EXCEPT !.branchComparison = TRUE], NoCmds)
      [] msg.type = "rebaseCommitsMsg" ->
           R([mm EXCEPT !.rebaseCommits = msg.payload,
                        !.rebaseTable =
                            SetRows(mm.rebaseTable, Len(msg.payload))], NoCmds)
      [] msg.type = "statusMsg" -> R(SetStatus(mm, msg.payload, 3), NoCmds)
      [] msg.type = "pushOutputMsg" -> R(SetStatus(mm, MsgPushed, 3), NoCmds)
      [] OTHER -> R(mm, NoCmds)

\* ------------------------------------------------------------------------
\* The environment of the dispatcher: the keys the user can press and the
\* completion messages the command tasks can deliver.
\* ------------------------------------------------------------------------
Keys == {"esc", "ctrl+c", "q", "1", "2", "3", "4", " ", "a", "r", "v", "d",
         "R", "o", "t", "b", "enter", "c", "up", "down", "k", "j", "n", "y",
         "p", "s", "f", "l", "x"}

SeqsUpTo(S, n) == UNION {[1..k -> S] : k \in 0..n}

Statuses == {<<"M", " ">>, <<"A", " ">>, <<"U", "U">>}
ChangeLists ==
    {c \in SeqsUpTo([File : {"a.go"}, Status : Statuses], MaxChanges) : TRUE}

StagedCounts == 0..MaxStaged
GitStatuses == [StagedFiles : StagedCounts]

\* git branch -vv: branches in name order, exactly one of them current
BranchLists ==
    {<<>>,
     <<[Name |-> "main", IsCurrent |-> TRUE]>>,
     <<[Name |-> "dev", IsCurrent |-> FALSE], [Name |-> "main", IsCurrent |-> TRUE]>>,
     <<[Name |-> "dev", IsCurrent |-> TRUE], [Name |-> "main", IsCurrent |-> FALSE]>>}

\* loadConflicts: every loaded conflict file is unresolved
ConflictLists == SeqsUpTo([Path : {"a.go"}, IsResolved : {FALSE}], MaxConflicts)

SuggestionLists == SeqsUpTo([Message : {"feat: update a"}], MaxSuggestions)

CommitLists == SeqsUpTo([Hash : {"abc1234"}], MaxCommits)

\* the texts a command task returns in a statusMsg
TaskStatusTexts == {MsgTaskOk, MsgTaskFailed}

Msg(type, payload) == [type |-> type, payload |-> payload]

\* the completion messages of the commands the handlers can issue
TaskMessages ==
    {Msg("gitChangesMsg", p) : p \in ChangeLists}
    \cup {Msg("commitSuggestionsMsg", p) : p \in SuggestionLists}
    \cup {Msg("gitStatusMsg", p) : p \in GitStatuses}
    \cup {Msg("branchesMsg", p) : p \in BranchLists}
    \cup {Msg("commitsMsg", p) : p \in CommitLists}
    \cup {Msg("conflictsMsg", p) : p \in ConflictLists}
    \cup {Msg("comparisonMsg", <<>>), Msg("pushOutputMsg", <<>>)}
    \cup {Msg("statusMsg", p) : p \in TaskStatusTexts}

\* ------------------------------------------------------------------------
\* Command tasks.  A command is a closure the runtime runs in its own
\* goroutine; it returns one message.  The runtime passes a message to
\* Update, except a batch (tea.BatchMsg, what tea.Batch(...)() returns),
\* whose member commands it runs in turn.
\*   tasks: the commands in flight (a bag), but for those of the watched
\*        command.
\*   watch: one issued command, chosen when it is issued: its op and arg,
\*        the number n of messages Update has processed that result from
\*        it, and sub, the commands in flight that result from it (itself,
\*        then the members of the batch it returned).
\* An outcome of a task is [msgs, members]: one message and no members, or
\* no message and the members of a batch.
\* ------------------------------------------------------------------------
NoWatch == [op |-> "", arg |-> "", n |-> 0, sub |-> {}]

TasksIdle == tasks = EmptyBag /\ watch = NoWatch

Single(msgs) == {[msgs |-> {msg}, members |-> {}] : msg \in msgs}
BatchOf(members) == {[msgs |-> {}, members |-> members]}
Failed == Single({Msg("statusMsg", MsgTaskFailed)})
Succeeded == Single({Msg("statusMsg", MsgTaskOk)})
\* the closure of a batch that returns the success statusMsg
StatusOk == Cmd("status", "")

\* the members of the batches the commands return on success
\* (faulty variant: toggleStaging's batch lacks the status closure)
toggleStagingBatchNoStatus == {Cmd("loadGitChanges", ""), Cmd("loadGitStatus", "")}
toggleStagingBatch ==
    {Cmd("loadGitChanges", ""), Cmd("loadGitStatus", ""), StatusOk}
switchBranchBatch == {Cmd("loadBranches", ""), Cmd("loadGitStatus", ""), StatusOk}
deleteBranchBatch == {Cmd("loadBranches", ""), StatusOk}
gitPullBatch == {Cmd("loadGitChanges", ""), Cmd("loadGitStatus", ""), StatusOk}
gitFetchBatch == {Cmd("loadGitStatus", ""), StatusOk}
resolveConflictBatch == {Cmd("loadConflicts", ""), StatusOk}
resetBatch == {Cmd("loadGitChanges", ""), Cmd("loadGitStatus", ""), StatusOk}
refreshAfterCommitBatch ==
    {Cmd("loadGitStatus", ""), Cmd("loadGitChanges", ""),
     Cmd("loadRecentCommits", "")}
refreshAfterStagingBatch == {Cmd("loadGitStatus", ""), Cmd("loadGitChanges", "")}

\* what the closure of command c can return
TaskResult(c) ==
    CASE c.op = "loadGitChanges" ->
           Failed \cup Single({Msg("gitChangesMsg", p) : p \in ChangeLists})
      [] c.op = "loadGitStatus" ->
           Single({Msg("gitStatusMsg", p) : p \in GitStatuses})
      [] c.op = "loadRecentCommits" ->
           Single({Msg("recentCommitsMsg", p) : p \in CommitLists})
      [] c.op = "loadBranches" ->
           Failed \cup Single({Msg("branchesMsg", p) : p \in BranchLists})
      [] c.op \in {"loadHistory", "loadReflog"} ->
           Failed \cup Single({Msg("commitsMsg", p) : p \in CommitLists})
      [] c.op = "loadConflicts" ->
           Failed \cup Single({Msg("conflictsMsg", p) : p \in ConflictLists})
      [] c.op = "loadBranchComparison" -> Single({Msg("comparisonMsg", <<>>)})
      [] c.op = "loadRebaseCommits" ->
           Failed \cup Single({Msg("rebaseCommitsMsg", <<>>)})
      [] c.op = "generateCommitSuggestions" ->
           Single({Msg("commitSuggestionsMsg", p) : p \in SuggestionLists})
      [] c.op = "toggleStaging" -> Failed \cup BatchOf(toggleStagingBatch)
      [] c.op \in {"gitAddAll", "gitReset", "commitWithMessage"} ->
           Failed \cup Succeeded
      [] c.op \in {"switchBranch", "createBranch"} ->
           Failed \cup BatchOf(switchBranchBatch)
      [] c.op = "deleteBranch" -> Failed \cup BatchOf(deleteBranchBatch)
      [] c.op = "gitPush" -> Failed \cup Single({Msg("pushOutputMsg", <<>>)})
      [] c.op = "gitPull" -> Failed \cup BatchOf(gitPullBatch)
      [] c.op = "gitFetch" -> Failed \cup BatchOf(gitFetchBatch)
      [] c.op = "viewDiff" -> Failed \cup Single({Msg("diffMsg", <<>>)})
      [] c.op = "resolveConflict" -> Failed \cup BatchOf(resolveConflictBatch)
      [] c.op = "continueMerge" -> Failed \cup BatchOf(resetBatch)
      [] c.op \in {"softReset", "mixedReset", "hardReset"} ->
           Failed \cup BatchOf(resetBatch)
      [] c.op = "executeRebase" -> Succeeded
      [] c.op = "refreshAfterCommit" -> BatchOf(refreshAfterCommitBatch)
      [] c.op = "refreshAfterStaging" -> BatchOf(refreshAfterStagingBatch)
      [] c.op = "status" -> Succeeded

\* what the closure of command c returns when the git invocation it makes
\* fails: the failure statusMsg, but for loadGitStatus (the counts stay 0),
\* loadRecentCommits (an empty list) and loadBranchComparison (an empty
\* comparison), which ignore the error; the refresh commands, the status
\* closure, executeRebase and generateCommitSuggestions report no failure
FailureResult(c) ==
    CASE c.op = "loadGitStatus" -> {Msg("gitStatusMsg", [StagedFiles |-> 0])}
      [] c.op = "loadRecentCommits" -> {Msg("recentCommitsMsg", <<>>)}
      [] c.op = "loadBranchComparison" -> {Msg("comparisonMsg", <<>>)}
      [] c.op \in {"refreshAfterCommit", "refreshAfterStaging", "status",
                   "executeRebase", "generateCommitSuggestions"} -> {}
      [] OTHER -> {Msg("statusMsg", MsgTaskFailed)}

\* the number of commands in flight
InFlight == BagCardinality(tasks) + Cardinality(watch.sub)

\* where newly issued commands cs go: all into the bag t, or, while no
\* command has been watched, one of them into the watch
Placements(cs, w, t) ==
    {[tasks |-> t (+) SetToBag(cs), watch |-> w]}
    \cup IF w = NoWatch
         THEN {[tasks |-> t (+) SetToBag(cs \ {c}),
                watch |-> [op |-> c.op, arg |-> c.arg, n |-> 0, sub |-> {c}]]
                  : c \in cs}
         ELSE {}

\* ------------------------------------------------------------------------
\* The commit task (the closure of commitWithMessage), one git invocation
\* per step.  A text is the sequence of its tokens: a file name or a
\* whitespace character.
\*   ct.pc: "idle", "check" (git diff --cached --name-only), "commit"
\*        (git commit -m), "done" (returned).
\*   ct.index: the files staged in the repository (numbers of their names);
\*        other processes and other tasks stage and unstage.
\*   ct.seen: the output of the check.
\*   ct.atCheck: the files that were staged when the check ran.
\*   ct.checks, ct.commits: the invocations of each git command so far.
\*   ct.reply: the text of the returned statusMsg.
\* ------------------------------------------------------------------------
MaxNames == 3
FileNames == <<"a.go", "b.go", "c.go", "d.go", "e.go">>
Whitespace == {" ", "\n", "\t", "\r"}

MsgCheckFailed == "failed-to-check-staged"
MsgNoStagedChanges == "no-staged-changes"
MsgCommitFailed == "commit-failed"
MsgCommitted == "committed"

\* strings.TrimSpace
RECURSIVE TrimLeft(_)
TrimLeft(text) ==
    IF text # <<>> /\ Head(text) \in Whitespace
    THEN TrimLeft(Tail(text)) ELSE text
RECURSIVE TrimRight(_)
TrimRight(text) ==
    IF text # <<>> /\ text[Len(text)] \in Whitespace
    THEN TrimRight(SubSeq(text, 1, Len(text) - 1)) ELSE text
TrimSpace(text) == TrimRight(TrimLeft(text))

\* the output of git diff --cached --name-only: one line per staged file
RECURSIVE NameLines(_, _)
NameLines(index, i) ==
    IF i > MaxNames THEN <<>>
    ELSE (IF i \in index THEN <<FileNames[i], "\n">> ELSE <<>>)
         \o NameLines(index, i + 1)

\* (faulty variant: the commit is attempted whatever the check printed)
nothingStagedNever(out) == FALSE

\* len(strings.TrimSpace(string(statusOutput))) == 0
nothingStaged(out) == Len(TrimSpace(out)) = 0

CommitTaskIdle ==
    [pc |-> "idle", index |-> {}, seen |-> <<>>, atCheck |-> {},
     checks |-> 0, commits |-> 0, reply |-> ""]

\* ------------------------------------------------------------------------
\* The two parsers of `git status --porcelain` output.  A text is the
\* sequence of its characters.
\*   gs.text: the output of git status --porcelain.
\*   gs.status: the counts loadGitStatus stores (NoCounts before it ran).
\*   gs.changes: the records loadGitChanges returns (<<>> before it ran).
\*   gs.counted, gs.listed: whether each loader has parsed the text.
\* ------------------------------------------------------------------------
MaxLines == 3

\* strings.Split(text, "\n")
RECURSIVE SplitLines(_)
SplitLines(text) ==
    IF \A i \in 1..Len(text) : text[i] # "\n" THEN <<text>>
    ELSE LET i == CHOOSE k \in 1..Len(text) :
                     /\ text[k] = "\n"
                     /\ \A j \in 1..(k - 1) : text[j] # "\n"
         IN  <<SubSeq(text, 1, i - 1)>>
             \o SplitLines(SubSeq(text, i + 1, Len(text)))

\* (faulty variant: an untracked file counts as staged)
isStagedColumnAny(c) == c # " "

\* stagedStatus != ' ' && stagedStatus != '?'
isStagedColumn(c) == c # " " /\ c # "?"

\* unstagedStatus != ' '
isUnstagedColumn(c) == c # " "

NoCounts == [stagedFiles |-> 0, unstagedFiles |-> 0, clean |-> FALSE]

\* the loop of parseGitStatusOutput over lines[i..], from the counts acc
RECURSIVE countLines(_, _, _)
countLines(lines, i, acc) ==
    IF i > Len(lines) THEN acc
    ELSE LET line == lines[i] IN
         IF TrimSpace(line) = <<>> THEN countLines(lines, i + 1, acc)
         ELSE IF Len(line) >= 2
         THEN countLines(lines, i + 1,
                [acc EXCEPT
                   !.stagedFiles =
                       IF isStagedColumn(line[1]) THEN @ + 1 ELSE @,
                   !.unstagedFiles =
                       IF isUnstagedColumn(line[2]) THEN @ + 1 ELSE @])
         ELSE countLines(lines, i + 1, acc)

parseGitStatusOutput(statusText) ==
    IF statusText = <<>>
    THEN [stagedFiles |-> 0, unstagedFiles |-> 0, clean |-> TRUE]
    ELSE countLines(SplitLines(statusText), 1, NoCounts)

\* the loop of parseGitStatus over lines[i..]
RECURSIVE changeLines(_, _)
changeLines(lines, i) ==
    IF i > Len(lines) THEN <<>>
    ELSE LET line == lines[i] IN
         IF TrimSpace(line) = <<>> THEN changeLines(lines, i + 1)
         ELSE IF Len(line) < 3 THEN changeLines(lines, i + 1)
         ELSE <<[File |-> TrimSpace(SubSeq(line, 4, Len(line))),
                 Status |-> SubSeq(line, 1, 2)]>>
              \o changeLines(lines, i + 1)

parseGitStatus(statusText) == changeLines(SplitLines(statusText), 1)

\* the lines a status text is composed of: `XY path` lines as git prints
\* them, and lines that are not of that form
StatusLines ==
    { <<"M", " ", " ", "a", ".", "g", "o">>,
      <<"?", "?", " ", "b", ".", "g", "o">>,
      <<" ", "D", " ", "c", ".", "g", "o">>,
      <<"M", "M", " ", "a", ".", "g", "o">>,
      <<"A", " ", " ">>,
      <<" ", "M">>,
      <<"A", " ">>,
      <<"M">>,
      <<" ", " ">> }

\* the lines joined by "\n", the last one terminated or not
RECURSIVE JoinLines(_, _)
JoinLines(lines, terminated) ==
    IF lines = <<>> THEN <<>>
    ELSE Head(lines)
         \o (IF Len(lines) > 1 \/ terminated THEN <<"\n">> ELSE <<>>)
         \o JoinLines(Tail(lines), terminated)

StatusTexts ==
    { JoinLines(lines, terminated) :
        lines \in UNION { [1..n -> StatusLines] : n \in 0..MaxLines },
        terminated \in BOOLEAN }

\* reset: what gitReset did: whether it has run, whether it issued
\* git reset HEAD, and the count and kind of the message it returned
NoReset == [done |-> FALSE, issued |-> FALSE, stagedCount |-> 0, message |-> ""]

StatusIdle ==
    [text |-> <<>>, status |-> NoCounts, changes |-> <<>>,
     counted |-> FALSE, listed |-> FALSE, reset |-> NoReset]

\* ------------------------------------------------------------------------
\* The commit-type classifier.  A path and a status are the sequences of
\* their characters; a commit type is its word.
\*   fa.file, fa.status: the change record (GitChange.File, .Status).
\*   fa.diff: the DiffInfo of the file.
\*   fa.type: the type determineAdvancedCommitType returned ("" before).
\*   fa.pc: "start", then "typed" once the type is determined.
\* ------------------------------------------------------------------------
MaxFunctions == 2

\* strings.HasPrefix, strings.HasSuffix, strings.Contains
HasPrefix(text, prefix) ==
    Len(text) >= Len(prefix) /\ SubSeq(text, 1, Len(prefix)) = prefix
HasSuffix(text, suffix) ==
    /\ Len(text) >= Len(suffix)
    /\ SubSeq(text, Len(text) - Len(suffix) + 1, Len(text)) = suffix
Contains(text, sub) ==
    \E i \in 1..(Len(text) - Len(sub) + 1) :
        SubSeq(text, i, i + Len(sub) - 1) = sub

\* filepath.Base: the last element of the path, trailing slashes removed
RECURSIVE StripSlashes(_)
StripSlashes(path) ==
    IF path # <<>> /\ path[Len(path)] = "/"
    THEN StripSlashes(SubSeq(path, 1, Len(path) - 1)) ELSE path
RECURSIVE AfterLastSlash(_)
AfterLastSlash(path) ==
    IF \A i \in 1..Len(path) : path[i] # "/" THEN path
    ELSE AfterLastSlash(Tail(path))
Base(path) ==
    IF path = <<>> THEN <<".">>
    ELSE IF StripSlashes(path) = <<>> THEN <<"/">>
    ELSE AfterLastSlash(StripSlashes(path))

abs(x) == IF x < 0 THEN -x ELSE x

\* (faulty variant: only ten or more removed lines indicate a fix)
containsBugFixKeywordsLargeOnly(diff) ==
    diff.LinesRemoved >= 10 /\ diff.LinesAdded < diff.LinesRemoved

\* (faulty variant: removals never indicate a fix)
containsNoBugFixKeywords(diff) == FALSE

\* diff.LinesRemoved > 0 && diff.LinesAdded < diff.LinesRemoved
containsBugFixKeywords(diff) ==
    diff.LinesRemoved > 0 /\ diff.LinesAdded < diff.LinesRemoved

\* the rules for a status that contains "A"
newFileType(file, diff) ==
    IF Contains(file, <<"t", "e", "s", "t">>) \/ HasSuffix(file, <<"_", "t", "e", "s", "t", ".", "g", "o">>)
    THEN "test"
    ELSE IF HasSuffix(file, <<".", "m", "d">>) \/ Contains(file, <<"R", "E", "A", "D", "M", "E">>)
    THEN "docs"
    ELSE IF Len(diff.Functions) > 0 THEN "feat"
    ELSE "feat"

\* the rules for a status that contains "M" (and neither "A" nor "D")
modifiedFileType(file, diff) ==
    LET fileName == Base(file) IN
    IF \/ HasSuffix(file, <<".", "m", "d">>)
       \/ Contains(file, <<"R", "E", "A", "D", "M", "E">>)
       \/ Contains(file, <<"d", "o", "c">>)
    THEN "docs"
    ELSE IF \/ Contains(file, <<"t", "e", "s", "t">>)
            \/ HasSuffix(file, <<"_", "t", "e", "s", "t", ".", "g", "o">>)
            \/ HasSuffix(file, <<".", "t", "e", "s", "t", ".", "j", "s">>)
    THEN "test"
    ELSE IF \/ Contains(file, <<"c", "o", "n", "f", "i", "g">>)
            \/ HasSuffix(file, <<".", "j", "s", "o", "n">>)
            \/ HasSuffix(file, <<".", "y", "a", "m", "l">>)
            \/ HasSuffix(file, <<".", "y", "m", "l">>)
            \/ HasSuffix(file, <<".", "t", "o", "m", "l">>)
            \/ fileName = <<"D", "o", "c", "k", "e", "r", "f", "i", "l", "e">>
            \/ fileName = <<"M", "a", "k", "e", "f", "i", "l", "e">>
            \/ HasSuffix(file, <<".", "e", "n", "v">>)
    THEN "chore"
    ELSE IF \/ fileName = <<"p", "a", "c", "k", "a", "g", "e", ".", "j", "s", "o", "n">>
            \/ fileName = <<"g", "o", ".", "m", "o", "d">>
            \/ fileName = <<"r", "e", "q", "u", "i", "r", "e", "m", "e", "n", "t", "s", ".", "t", "x", "t">>
            \/ fileName = <<"C", "a", "r", "g", "o", ".", "t", "o", "m", "l">>
            \/ fileName = <<"p", "o", "m", ".", "x", "m", "l">>
    THEN (IF Len(diff.Imports) > 0 THEN "feat" ELSE "chore")
    ELSE IF containsBugFixKeywords(diff) THEN "fix"
    ELSE IF \/ Len(diff.Functions) > 0
            \/ diff.LinesAdded > diff.LinesRemoved * 2
    THEN "feat"
    ELSE IF /\ diff.LinesAdded > 0
            /\ diff.LinesRemoved > 0
            /\ abs(diff.LinesAdded - diff.LinesRemoved) < 10
    THEN "refactor"
    ELSE IF diff.LinesAdded + diff.LinesRemoved < 10 THEN "fix"
    ELSE "feat"

\* (faulty variant: the modified-file rules are tried before the others)
determineModifiedFirst(file, status, diff) ==
    IF Contains(status, <<"M">>) THEN modifiedFileType(file, diff)
    ELSE IF Contains(status, <<"A">>) THEN newFileType(file, diff)
    ELSE "chore"

determineAdvancedCommitType(file, status, diff) ==
    IF Contains(status, <<"A">>) THEN newFileType(file, diff)
    ELSE IF Contains(status, <<"D">>) THEN "chore"
    ELSE IF Contains(status, <<"M">>) THEN modifiedFileType(file, diff)
    ELSE "chore"

\* the paths, statuses and diffs the classifier is applied to
ChangedPaths ==
    { <<"m", "a", "i", "n", ".", "g", "o">>,
      <<"R", "E", "A", "D", "M", "E", ".", "m", "d">>,
      <<"d", "o", "c", "s", "/", "a", "p", "i", ".", "g", "o">>,
      <<"a", "p", "p", "_", "t", "e", "s", "t", ".", "g", "o">>,
      <<"c", "o", "n", "f", "i", "g", ".", "g", "o">>,
      <<"p", "a", "c", "k", "a", "g", "e", ".", "j", "s", "o", "n">>,
      <<"C", "a", "r", "g", "o", ".", "t", "o", "m", "l">>,
      <<"g", "o", ".", "m", "o", "d">>,
      <<"r", "e", "q", "u", "i", "r", "e", "m", "e", "n", "t", "s", ".", "t", "x", "t">>,
      <<"p", "o", "m", ".", "x", "m", "l">>,
      <<"M", "a", "k", "e", "f", "i", "l", "e">>,
      <<"t", "e", "s", "t", "/", "g", "o", ".", "m", "o", "d">>,
      <<"s", "r", "c", "/", "u", "i", "/", "v", "i", "e", "w", ".", "g", "o">> }
StatusCodes ==
    { <<"A", " ">>, <<"M", " ">>, <<" ", "M">>, <<"M", "M">>, <<"D", " ">>,
      <<" ", "D">>, <<"?", "?">>, <<"A", "M">>, <<"A", "D">>, <<"M", "D">>,
      <<"R", " ">> }
LineCounts == {0, 1, 2, 5, 10, 20}
FunctionNames == <<<<"r", "u", "n">>, <<"l", "o", "a", "d">>, <<"s", "a", "v", "e">>>>
ImportNames == <<<<"f", "m", "t">>>>

\* the DiffInfo records parseDiffOutput can return for ordinary lines: the
\* functions and imports are found on added lines
NoDiff ==
    [LinesAdded |-> 0, LinesRemoved |-> 0, Functions |-> <<>>,
     Imports |-> <<>>, HasTests |-> FALSE, HasDocs |-> FALSE,
     Variables |-> <<>>, Keywords |-> {}, Comments |-> <<>>, Context |-> ""]
PlainDiffs ==
    LET all == { [NoDiff EXCEPT !.LinesAdded = a, !.LinesRemoved = r,
                                !.Functions = SubSeq(FunctionNames, 1, f),
                                !.Imports = SubSeq(ImportNames, 1, i)] :
                   a \in LineCounts, r \in LineCounts,
                   f \in 0..Min(MaxFunctions, Len(FunctionNames)),
                   i \in 0..1 }
    IN  { d \in all : /\ Len(d.Functions) <= d.LinesAdded
                      /\ Len(d.Imports) <= d.LinesAdded }

FileAnalysisIdle ==
    [file |-> <<>>, status |-> <<>>, diff |-> NoDiff, type |-> "",
     pc |-> "idle"]


\* ------------------------------------------------------------------------
\* The message composer.  A message, a scope and a description are the
\* sequences of their characters.
\*   sg.individual: the per-file suggestions built so far, each with the
\*        Type, Message and Scope of its FileAnalysis.
\*   sg.suggestions: the list analyzeChangesForCommits returns.
\*   sg.pc: "files" while change records are analysed, then "done".
\* ------------------------------------------------------------------------
MaxFiles == 2

\* the spelling of a commit type, of a context prefix and of a small number
TypeText ==
    [feat |-> <<"f", "e", "a", "t">>, fix |-> <<"f", "i", "x">>, docs |-> <<"d", "o", "c", "s">>,
     style |-> <<"s", "t", "y", "l", "e">>, refactor |-> <<"r", "e", "f", "a", "c", "t", "o", "r">>, test |-> <<"t", "e", "s", "t">>,
     chore |-> <<"c", "h", "o", "r", "e">>]
Digit(n) == <<<<"0">>, <<"1">>, <<"2">>, <<"3">>, <<"4">>, <<"5">>, <<"6">>,
              <<"7">>, <<"8">>, <<"9">>>>[n + 1]

\* strings.Index, 1-based; 0 when sub does not occur
Index(text, sub) ==
    IF Contains(text, sub)
    THEN CHOOSE i \in 1..Len(text) :
           /\ SubSeq(text, i, i + Len(sub) - 1) = sub
           /\ \A j \in 1..(i - 1) : SubSeq(text, j, j + Len(sub) - 1) # sub
    ELSE 0

\* strings.ToLower
UpperCase == <<"A", "B", "C", "D", "E", "F", "G", "H", "I", "J", "K", "L", "M", "N", "O", "P", "Q", "R", "S", "T", "U", "V", "W", "X", "Y", "Z">>
LowerCase == <<"a", "b", "c", "d", "e", "f", "g", "h", "i", "j", "k", "l", "m", "n", "o", "p", "q", "r", "s", "t", "u", "v", "w", "x", "y", "z">>
ToLower(text) ==
    [i \in 1..Len(text) |->
       IF \E k \in 1..26 : UpperCase[k] = text[i]
       THEN LowerCase[CHOOSE k \in 1..26 : UpperCase[k] = text[i]]
       ELSE text[i]]

\* filepath.Ext: the suffix of the last element from its last dot
RECURSIVE FromLastDot(_)
FromLastDot(name) ==
    IF \A i \in 1..Len(name) : name[i] # "." THEN <<>>
    ELSE IF \A i \in 2..Len(name) : name[i] # "." THEN name
    ELSE FromLastDot(Tail(name))
Ext(path) == FromLastDot(AfterLastSlash(path))

\* strings.TrimSuffix
TrimSuffix(text, suffix) ==
    IF HasSuffix(text, suffix)
    THEN SubSeq(text, 1, Len(text) - Len(suffix)) ELSE text

\* strings.Split(file, "/")
RECURSIVE SplitPath(_)
SplitPath(path) ==
    IF \A i \in 1..Len(path) : path[i] # "/" THEN <<path>>
    ELSE LET i == Index(path, <<"/">>)
         IN  <<SubSeq(path, 1, i - 1)>>
             \o SplitPath(SubSeq(path, i + 1, Len(path)))

\* (faulty variant: no path has a scope)
determineNoScope(file) == <<>>

determineScope(file) ==
    LET parts == SplitPath(file)
        firstDir == parts[1]
        fileName == Base(file)
    IN  IF Len(parts) > 1
        THEN IF firstDir \in { <<"s", "r", "c">>, <<"l", "i", "b">> }
             THEN (IF Len(parts) > 2 THEN parts[2] ELSE <<"c", "o", "r", "e">>)
             ELSE IF firstDir \in { <<"t", "e", "s", "t", "s">>, <<"t", "e", "s", "t">> } THEN <<"t", "e", "s", "t">>
             ELSE IF firstDir \in { <<"d", "o", "c", "s">>, <<"d", "o", "c", "u", "m", "e", "n", "t", "a", "t", "i", "o", "n">> } THEN <<"d", "o", "c", "s">>
             ELSE IF firstDir \in { <<"c", "o", "n", "f", "i", "g">>, <<"c", "o", "n", "f", "i", "g", "s">> } THEN <<"c", "o", "n", "f", "i", "g">>
             ELSE IF firstDir = <<"a", "p", "i">> THEN <<"a", "p", "i">>
             ELSE IF firstDir \in { <<"u", "i">>, <<"f", "r", "o", "n", "t", "e", "n", "d">>, <<"c", "l", "i", "e", "n", "t">> } THEN <<"u", "i">>
             ELSE IF firstDir \in { <<"b", "a", "c", "k", "e", "n", "d">>, <<"s", "e", "r", "v", "e", "r">> } THEN <<"a", "p", "i">>
             ELSE IF firstDir \in { <<"s", "c", "r", "i", "p", "t", "s">>, <<"t", "o", "o", "l", "s">> } THEN <<"t", "o", "o", "l", "s">>
             ELSE firstDir
        ELSE IF Contains(fileName, <<"t", "e", "s", "t">>) THEN <<"t", "e", "s", "t">>
        ELSE IF HasSuffix(fileName, <<".", "m", "d">>) THEN <<"d", "o", "c", "s">>
        ELSE IF Contains(fileName, <<"c", "o", "n", "f", "i", "g">>) THEN <<"c", "o", "n", "f", "i", "g">>
        ELSE <<>>

\* (faulty variant: no context has a phrase)
contextPrefixNone(context) == <<>>

\* the switch on diff.Context
contextPrefixOf(context) ==
    CASE context = "fix" -> <<"f", "i", "x">>
      [] context = "validation" -> <<"a", "d", "d", " ", "v", "a", "l", "i", "d", "a", "t", "i", "o", "n", " ", "f", "o", "r">>
      [] context = "api" -> <<"a", "d", "d", " ", "A", "P", "I", " ", "e", "n", "d", "p", "o", "i", "n", "t", " ", "f", "o", "r">>
      [] context = "security" -> <<"i", "m", "p", "r", "o", "v", "e", " ", "s", "e", "c", "u", "r", "i", "t", "y", " ", "i", "n">>
      [] context = "performance" -> <<"o", "p", "t", "i", "m", "i", "z", "e">>
      [] OTHER -> <<>>

\* (faulty variant: comments are never used as the description)
usesNoComment(diff) == FALSE

\* whether the first comment is used as the description
usesFirstComment(diff) ==
    /\ Len(diff.Comments) > 0
    /\ LET firstComment == diff.Comments[1]
           lowerComment == ToLower(firstComment)
       IN  /\ Len(firstComment) > 10
           /\ Len(firstComment) < 60
           /\ \/ Contains(lowerComment, <<"f", "i", "x">>)
              \/ Contains(lowerComment, <<"a", "d", "d">>)
              \/ Contains(lowerComment, <<"u", "p", "d", "a", "t", "e">>)
              \/ Contains(lowerComment, <<"r", "e", "m", "o", "v", "e">>)

\* case "A ", " A"
messageForAdded(file, diff, commitType, contextPrefix) ==
    LET fileName == Base(file)
        baseName == TrimSuffix(fileName, Ext(file))
        nf == Len(diff.Functions)
    IN  IF contextPrefix # <<>> /\ nf > 0
        THEN contextPrefix \o <<" ">> \o diff.Functions[1]
        ELSE IF nf > 0
        THEN (IF nf = 1
              THEN (IF Len(diff.Variables) > 0 /\ "error" \in diff.Keywords
                    THEN <<"a", "d", "d", " ">> \o diff.Functions[1]
                         \o <<" ", "w", "i", "t", "h", " ", "e", "r", "r", "o", "r", " ", "h", "a", "n", "d", "l", "i", "n", "g">>
                    ELSE <<"a", "d", "d", " ">> \o diff.Functions[1])
              ELSE <<"a", "d", "d", " ">> \o baseName \o <<" ", "w", "i", "t", "h", " ">> \o Digit(nf)
                   \o <<" ", "f", "u", "n", "c", "t", "i", "o", "n", "s">>)
        ELSE IF Len(diff.Imports) > 0
        THEN <<"a", "d", "d", " ">> \o baseName \o <<" ", "w", "i", "t", "h", " ", "d", "e", "p", "e", "n", "d", "e", "n", "c", "i", "e", "s">>
        ELSE IF HasSuffix(fileName, <<"_", "t", "e", "s", "t", ".", "g", "o">>) \/ Contains(fileName, <<"t", "e", "s", "t">>)
        THEN <<"a", "d", "d", " ", "t", "e", "s", "t", "s", " ", "f", "o", "r", " ">> \o TrimSuffix(baseName, <<"_", "t", "e", "s", "t">>)
        ELSE IF HasSuffix(fileName, <<".", "m", "d">>)
        THEN (IF fileName = <<"R", "E", "A", "D", "M", "E", ".", "m", "d">> THEN <<"a", "d", "d", " ", "R", "E", "A", "D", "M", "E", " ", "d", "o", "c", "u", "m", "e", "n", "t", "a", "t", "i", "o", "n">>
              ELSE <<"a", "d", "d", " ">> \o baseName \o <<" ", "d", "o", "c", "u", "m", "e", "n", "t", "a", "t", "i", "o", "n">>)
        ELSE IF commitType = "chore"
        THEN <<"a", "d", "d", " ">> \o baseName \o <<" ", "c", "o", "n", "f", "i", "g">>
        ELSE <<"a", "d", "d", " ">> \o fileName

\* case "M ", " M", "MM"
messageForModified(file, diff, commitType, contextPrefix) ==
    LET fileName == Base(file)
        baseName == TrimSuffix(fileName, Ext(file))
        nf == Len(diff.Functions)
        a == diff.LinesAdded
        r == diff.LinesRemoved
        byType ==
            CASE commitType = "fix" -> <<"f", "i", "x", " ", "i", "s", "s", "u", "e", "s", " ", "i", "n", " ">> \o baseName
              [] commitType = "refactor" -> <<"r", "e", "f", "a", "c", "t", "o", "r", " ">> \o baseName
              [] commitType = "feat" -> <<"e", "n", "h", "a", "n", "c", "e", " ">> \o baseName
              [] OTHER -> <<"u", "p", "d", "a", "t", "e", " ">> \o baseName
        byLines ==
            IF a > r * 3
            THEN (IF commitType = "feat"
                  THEN <<"e", "x", "t", "e", "n", "d", " ">> \o baseName \o <<" ", "f", "u", "n", "c", "t", "i", "o", "n", "a", "l", "i", "t", "y">>
                  ELSE byType)
            ELSE IF r > a * 2
            THEN (IF commitType = "refactor" THEN <<"s", "i", "m", "p", "l", "i", "f", "y", " ">> \o baseName
                  ELSE <<"c", "l", "e", "a", "n", " ", "u", "p", " ">> \o baseName)
            ELSE byType
        byImports ==
            IF Len(diff.Imports) > 0
            THEN (IF commitType = "feat"
                  THEN <<"a", "d", "d", " ", "d", "e", "p", "e", "n", "d", "e", "n", "c", "i", "e", "s", " ", "t", "o", " ">> \o baseName
                  ELSE <<"u", "p", "d", "a", "t", "e", " ", "i", "m", "p", "o", "r", "t", "s", " ", "i", "n", " ">> \o baseName)
            ELSE byLines
        byFunctions ==
            IF nf = 1
            THEN LET funcName == diff.Functions[1] IN
                 IF "auth" \in diff.Keywords \/ "security" \in diff.Keywords
                 THEN <<"i", "m", "p", "r", "o", "v", "e", " ", "s", "e", "c", "u", "r", "i", "t", "y", " ", "i", "n", " ">> \o funcName
                 ELSE IF \/ "optimize" \in diff.Keywords
                         \/ "performance" \in diff.Keywords
                 THEN <<"o", "p", "t", "i", "m", "i", "z", "e", " ">> \o funcName
                 ELSE IF commitType = "fix" THEN <<"f", "i", "x", " ">> \o funcName
                 ELSE IF commitType = "refactor"
                 THEN <<"r", "e", "f", "a", "c", "t", "o", "r", " ">> \o funcName
                 ELSE <<"u", "p", "d", "a", "t", "e", " ">> \o funcName
            ELSE IF nf > 1 /\ nf <= 3
            THEN (IF commitType = "refactor"
                  THEN <<"r", "e", "f", "a", "c", "t", "o", "r", " ">> \o Digit(nf) \o <<" ", "f", "u", "n", "c", "t", "i", "o", "n", "s", " ", "i", "n", " ">>
                       \o baseName
                  ELSE <<"u", "p", "d", "a", "t", "e", " ">> \o Digit(nf) \o <<" ", "f", "u", "n", "c", "t", "i", "o", "n", "s", " ", "i", "n", " ">>
                       \o baseName)
            ELSE byImports
    IN  IF contextPrefix # <<>>
        THEN (IF nf > 0 THEN contextPrefix \o <<" ">> \o diff.Functions[1]
              ELSE contextPrefix \o <<" ">> \o baseName)
        ELSE IF "error" \in diff.Keywords \/ "bug" \in diff.Keywords
        THEN (IF nf > 0
              THEN <<"f", "i", "x", " ", "e", "r", "r", "o", "r", " ", "h", "a", "n", "d", "l", "i", "n", "g", " ", "i", "n", " ">> \o diff.Functions[1]
              ELSE <<"f", "i", "x", " ", "e", "r", "r", "o", "r", " ", "h", "a", "n", "d", "l", "i", "n", "g", " ", "i", "n", " ">> \o baseName)
        ELSE IF "validate" \in diff.Keywords \/ "check" \in diff.Keywords
        THEN (IF nf > 0 THEN <<"a", "d", "d", " ", "v", "a", "l", "i", "d", "a", "t", "i", "o", "n", " ", "t", "o", " ">> \o diff.Functions[1]
              ELSE <<"a", "d", "d", " ", "i", "n", "p", "u", "t", " ", "v", "a", "l", "i", "d", "a", "t", "i", "o", "n", " ", "t", "o", " ">> \o baseName)
        ELSE IF commitType = "docs"
        THEN (IF fileName = <<"R", "E", "A", "D", "M", "E", ".", "m", "d">> THEN <<"u", "p", "d", "a", "t", "e", " ", "R", "E", "A", "D", "M", "E">>
              ELSE <<"u", "p", "d", "a", "t", "e", " ">> \o baseName \o <<" ", "d", "o", "c", "s">>)
        ELSE IF commitType = "test"
        THEN <<"u", "p", "d", "a", "t", "e", " ">> \o TrimSuffix(baseName, <<"_", "t", "e", "s", "t">>) \o <<" ", "t", "e", "s", "t", "s">>
        ELSE IF commitType = "chore"
        THEN (IF fileName = <<"p", "a", "c", "k", "a", "g", "e", ".", "j", "s", "o", "n">> \/ fileName = <<"g", "o", ".", "m", "o", "d">>
              THEN (IF Len(diff.Imports) > 0 THEN <<"u", "p", "d", "a", "t", "e", " ", "d", "e", "p", "e", "n", "d", "e", "n", "c", "i", "e", "s">>
                    ELSE <<"u", "p", "d", "a", "t", "e", " ", "p", "a", "c", "k", "a", "g", "e", " ", "c", "o", "n", "f", "i", "g">>)
              ELSE <<"u", "p", "d", "a", "t", "e", " ">> \o baseName \o <<" ", "c", "o", "n", "f", "i", "g">>)
        ELSE byFunctions

generateSmartCommitMessage(file, status, diff, commitType0) ==
    LET commitType == IF diff.Context = "fix" THEN "fix" ELSE commitType0
        contextPrefix == contextPrefixOf(diff.Context)
    IN  IF usesFirstComment(diff) THEN diff.Comments[1]
        ELSE IF status \in { <<"A", " ">>, <<" ", "A">> }
        THEN messageForAdded(file, diff, commitType, contextPrefix)
        ELSE IF status \in { <<"D", " ">>, <<" ", "D">> }
        THEN <<"r", "e", "m", "o", "v", "e", " ">> \o Base(file)
        ELSE IF status \in { <<"M", " ">>, <<" ", "M">>, <<"M", "M">> }
        THEN messageForModified(file, diff, commitType, contextPrefix)
        ELSE <<"m", "o", "d", "i", "f", "y", " ">> \o Base(file)

\* (faulty variant: the parentheses are written whatever the scope)
formatAlwaysScoped(commitType, scope, description) ==
    TypeText[commitType] \o <<"(">> \o scope \o <<")", ":", " ">> \o description

formatConventionalCommit(commitType, scope, description) ==
    IF scope # <<>>
    THEN TypeText[commitType] \o <<"(">> \o scope \o <<")", ":", " ">> \o description
    ELSE TypeText[commitType] \o <<":", " ">> \o description

analyzeFileChange(change, diff) ==
    LET scope == determineScope(change.File)
        commitType == determineAdvancedCommitType(change.File, change.Status,
                                                  diff)
        rawMessage == generateSmartCommitMessage(change.File, change.Status,
                                                 diff, commitType)
    IN  [Type |-> commitType,
         Message |-> formatConventionalCommit(commitType, scope, rawMessage),
         Scope |-> scope]

\* the scope generateCombinedSuggestion reads back from a message (<<>>
\* when it finds none)
scopeIn(message) ==
    LET start == Index(message, <<"(">>)
        end == Index(message, <<")", ":">>)
    IN  IF start > 0 /\ end > 0 /\ end - 1 > start
        THEN SubSeq(message, start + 1, end - 1) ELSE <<>>

combinedDescription(types, mainType, totalFiles) ==
    IF Cardinality(types) = 1
    THEN CASE mainType = "feat" ->
                IF totalFiles = 1 THEN <<"a", "d", "d", " ", "n", "e", "w", " ", "f", "e", "a", "t", "u", "r", "e">>
                ELSE <<"a", "d", "d", " ", "n", "e", "w", " ", "f", "e", "a", "t", "u", "r", "e", "s", " ", "a", "c", "r", "o", "s", "s", " ">> \o Digit(totalFiles)
                     \o <<" ", "f", "i", "l", "e", "s">>
           [] mainType = "fix" ->
                IF totalFiles = 1 THEN <<"f", "i", "x", " ", "b", "u", "g">>
                ELSE <<"f", "i", "x", " ", "m", "u", "l", "t", "i", "p", "l", "e", " ", "b", "u", "g", "s", " ", "(">> \o Digit(totalFiles)
                     \o <<" ", "f", "i", "l", "e", "s", ")">>
           [] mainType = "docs" -> <<"u", "p", "d", "a", "t", "e", " ", "d", "o", "c", "u", "m", "e", "n", "t", "a", "t", "i", "o", "n">>
           [] mainType = "test" -> <<"u", "p", "d", "a", "t", "e", " ", "t", "e", "s", "t", "s">>
           [] mainType = "chore" -> <<"u", "p", "d", "a", "t", "e", " ", "c", "o", "n", "f", "i", "g", "u", "r", "a", "t", "i", "o", "n">>
           [] mainType = "refactor" -> <<"r", "e", "f", "a", "c", "t", "o", "r", " ", "c", "o", "d", "e">>
           [] OTHER -> <<"u", "p", "d", "a", "t", "e", " ", "f", "i", "l", "e", "s">>
    ELSE <<"u", "p", "d", "a", "t", "e", " ">> \o Digit(totalFiles) \o <<" ", "f", "i", "l", "e", "s", " ", "w", "i", "t", "h", " ", "m", "i", "x", "e", "d", " ", "c", "h", "a", "n", "g", "e", "s">>

\* the suggestions generateCombinedSuggestion can return for a non-empty
\* list: the iteration order of the two maps decides between equal counts
generateCombinedSuggestion(individual) ==
    LET totalFiles == Len(individual)
        idx == 1..totalFiles
        types == {individual[i].Type : i \in idx}
        typeCount(t) == Cardinality({i \in idx : individual[i].Type = t})
        scopes == {scopeIn(individual[i].Message) : i \in idx} \ {<<>>}
        scopeCount(sc) ==
            Cardinality({i \in idx : scopeIn(individual[i].Message) = sc})
        mainTypes == {t \in types : \A u \in types : typeCount(u) <= typeCount(t)}
        mainScopes ==
            IF scopes = {} THEN {<<>>}
            ELSE {sc \in scopes :
                    \A u \in scopes : scopeCount(u) <= scopeCount(sc)}
    IN  { [Type |-> mainType,
           Message |->
             formatConventionalCommit(mainType,
               IF mainScope # <<>> /\ scopeCount(mainScope) > totalFiles \div 2
               THEN mainScope ELSE <<>>,
               combinedDescription(types, mainType, totalFiles))] :
          mainType \in mainTypes, mainScope \in mainScopes }

\* the change records and diffs the composer is applied to
ComposePaths ==
    { <<"m", "a", "i", "n", ".", "g", "o">>, <<"s", "r", "c", "/", "u", "i", "/", "v", "i", "e", "w", ".", "g", "o">>, <<"R", "E", "A", "D", "M", "E", ".", "m", "d">>, <<".", "e", "n", "v">>,
      <<"a", "p", "p", "_", "t", "e", "s", "t", ".", "g", "o">> }
ComposeStatuses == { <<"M", " ">>, <<"A", " ">>, <<" ", "D">>, <<"?", "?">> }
ComposeDiffs ==
    { NoDiff,
      [NoDiff EXCEPT !.LinesAdded = 3, !.Functions = <<<<"r", "u", "n">>>>],
      [NoDiff EXCEPT !.LinesAdded = 3, !.LinesRemoved = 1,
                     !.Comments = <<<<"f", "i", "x", " ", "p", "a", "r", "s", "e", "(", "x", ")", ":", " ", "n", "i", "l", " ", "c", "a", "s", "e">>>>,
                     !.Keywords = {"fix"}, !.Context = "fix"],
      [NoDiff EXCEPT !.LinesAdded = 2, !.Functions = <<<<"l", "o", "a", "d">>>>,
                     !.Keywords = {"handler"}, !.Context = "api"],
      [NoDiff EXCEPT !.LinesAdded = 1, !.LinesRemoved = 5] }

\* generateCombinedSuggestion of the 6-tab variant: the same counting, the
\* short descriptions and the file count appended for more than one file
simpleDescription(types, mainType, totalFiles) ==
    LET description ==
          IF Cardinality(types) = 1
          THEN CASE mainType = "feat" -> <<"a", "d", "d", " ", "f", "e", "a", "t", "u", "r", "e", "s">>
                 [] mainType = "fix" -> <<"f", "i", "x", " ", "i", "s", "s", "u", "e", "s">>
                 [] mainType = "docs" -> <<"u", "p", "d", "a", "t", "e", " ", "d", "o", "c", "s">>
                 [] mainType = "test" -> <<"u", "p", "d", "a", "t", "e", " ", "t", "e", "s", "t", "s">>
                 [] mainType = "chore" -> <<"u", "p", "d", "a", "t", "e", " ", "c", "o", "n", "f", "i", "g">>
                 [] mainType = "refactor" -> <<"r", "e", "f", "a", "c", "t", "o", "r", " ", "c", "o", "d", "e">>
                 [] OTHER -> <<"u", "p", "d", "a", "t", "e", " ", "f", "i", "l", "e", "s">>
          ELSE <<"u", "p", "d", "a", "t", "e", " ", "m", "u", "l", "t", "i", "p", "l", "e", " ", "f", "i", "l", "e", "s">>
    IN  IF totalFiles > 1
        THEN description \o <<" ", "(">> \o Digit(totalFiles) \o <<" ", "f", "i", "l", "e", "s", ")">>
        ELSE description

generateSimpleCombinedSuggestion(individual) ==
    LET totalFiles == Len(individual)
        idx == 1..totalFiles
        types == {individual[i].Type : i \in idx}
        typeCount(t) == Cardinality({i \in idx : individual[i].Type = t})
        scopes == {scopeIn(individual[i].Message) : i \in idx} \ {<<>>}
        scopeCount(sc) ==
            Cardinality({i \in idx : scopeIn(individual[i].Message) = sc})
        mainTypes == {t \in types : \A u \in types : typeCount(u) <= typeCount(t)}
        mainScopes ==
            IF scopes = {} THEN {<<>>}
            ELSE {sc \in scopes :
                    \A u \in scopes : scopeCount(u) <= scopeCount(sc)}
    IN  { [Type |-> mainType,
           Message |->
             formatConventionalCommit(mainType,
               IF mainScope # <<>> /\ scopeCount(mainScope) > totalFiles \div 2
               THEN mainScope ELSE <<>>,
               simpleDescription(types, mainType, totalFiles))] :
          mainType \in mainTypes, mainScope \in mainScopes }

\* the most change records one run of the aggregator is given
MaxAnalyzed == 6

\* what the analysis of one change record hands to the aggregator: the
\* type, the scope and the description that analyzeFileChange formats
PerFileAnalyses ==
    { [Type |-> "feat", Scope |-> <<"u", "i">>, Raw |-> <<"a", "d", "d", " ", "v", "i", "e", "w">>],
      [Type |-> "feat", Scope |-> <<"a", "p", "i">>, Raw |-> <<"a", "d", "d", " ", "h", "a", "n", "d", "l", "e", "r">>],
      [Type |-> "fix", Scope |-> <<>>, Raw |-> <<"f", "i", "x", " ", "c", "r", "a", "s", "h", " ", "i", "n", " ", "m", "a", "i", "n">>] }

\* tabs: the variant the aggregator belongs to (4 or 6 tabs)
SuggestIdle ==
    [individual |-> <<>>, suggestions |-> <<>>, pc |-> "idle", tabs |-> 4]

\* ------------------------------------------------------------------------
\* The diff parser.  A diff text and a line are the sequences of their
\* characters.
\* ------------------------------------------------------------------------
WordChars ==
    {UpperCase[k] : k \in 1..26} \cup {LowerCase[k] : k \in 1..26}
    \cup {"0", "1", "2", "3", "4", "5", "6", "7", "8", "9", "_"}

\* strings.Fields: the maximal runs of non-space characters
RECURSIVE Fields(_)
Fields(text) ==
    LET t == TrimLeft(text) IN
    IF t = <<>> THEN <<>>
    ELSE LET n == IF \E i \in 1..Len(t) : t[i] \in Whitespace
                  THEN (CHOOSE i \in 1..Len(t) :
                          /\ t[i] \in Whitespace
                          /\ \A j \in 1..(i - 1) : t[j] \notin Whitespace) - 1
                  ELSE Len(t)
         IN  <<SubSeq(t, 1, n)>> \o Fields(SubSeq(t, n + 1, Len(t)))

\* strings.Trim(text, cutset)
RECURSIVE Trim(_, _)
Trim(text, cutset) ==
    IF text # <<>> /\ Head(text) \in cutset THEN Trim(Tail(text), cutset)
    ELSE IF text # <<>> /\ text[Len(text)] \in cutset
    THEN Trim(SubSeq(text, 1, Len(text) - 1), cutset)
    ELSE text

\* name[:strings.Index(name, c)] when c occurs in name, name otherwise
CutAt(name, c) ==
    IF Contains(name, <<c>>) THEN SubSeq(name, 1, Index(name, <<c>>) - 1)
    ELSE name

\* the text after the last "/" (parts[len(parts)-1] of strings.Split)
LastPathPart(text) == AfterLastSlash(text)

\* trimmed := strings.TrimSpace(line), less a leading "+"
trimmedLine(line) ==
    LET trimmed == TrimSpace(line) IN
    IF HasPrefix(trimmed, <<"+">>)
    THEN TrimSpace(SubSeq(trimmed, 2, Len(trimmed))) ELSE trimmed

\* text[i:] for the 1-based position i
From(text, i) == SubSeq(text, i, Len(text))

extractFunctionName(line) ==
    LET trimmed == trimmedLine(line)
        \* Go
        goRemaining0 == From(trimmed, Index(trimmed, <<"f", "u", "n", "c", " ">>) + 5)
        goParenEnd == Index(goRemaining0, <<")">>)
        goRemaining ==
            IF HasPrefix(goRemaining0, <<"(">>) /\ goParenEnd > 1
            THEN TrimSpace(From(goRemaining0, goParenEnd + 1))
            ELSE goRemaining0
        goParts == Fields(goRemaining)
        \* JavaScript/TypeScript
        jsParts == Fields(From(trimmed, Index(trimmed, <<"f", "u", "n", "c", "t", "i", "o", "n", " ">>)))
        \* arrow functions
        arrowParts == Fields(From(trimmed, Index(trimmed, <<"c", "o", "n", "s", "t", " ">>) + 6))
        \* Python
        pyParts == Fields(From(trimmed, Index(trimmed, <<"d", "e", "f", " ">>)))
        \* classes
        classParts == Fields(From(trimmed, Index(trimmed, <<"c", "l", "a", "s", "s", " ">>)))
    IN  IF Contains(trimmed, <<"f", "u", "n", "c", " ">>) /\ Len(goParts) > 0
        THEN CutAt(goParts[1], "(")
        ELSE IF Contains(trimmed, <<"f", "u", "n", "c", "t", "i", "o", "n", " ">>) /\ Len(jsParts) > 1
        THEN CutAt(jsParts[2], "(")
        ELSE IF /\ Contains(trimmed, <<"=", ">">>)
                /\ Contains(trimmed, <<"c", "o", "n", "s", "t", " ">>)
                /\ Len(arrowParts) > 0
        THEN TrimSpace(CutAt(arrowParts[1], "="))
        ELSE IF Contains(trimmed, <<"d", "e", "f", " ">>) /\ Len(pyParts) > 1
        THEN CutAt(pyParts[2], "(")
        ELSE IF Contains(trimmed, <<"c", "l", "a", "s", "s", " ">>) /\ Len(classParts) > 1
        THEN CutAt(CutAt(CutAt(classParts[2], ":"), "("), "{")
        ELSE <<>>

\* the end of the run of word characters that starts at i
WordEnd(text, i) ==
    CHOOSE j \in i..Len(text) :
      /\ \A k \in i..j : text[k] \in WordChars
      /\ j = Len(text) \/ text[j + 1] \notin WordChars

\* the first position from k on that holds no space (Len + 1 if none)
SkipSpaces(text, k) ==
    CHOOSE p \in k..(Len(text) + 1) :
      /\ \A q \in k..(p - 1) : text[q] \in Whitespace
      /\ p = Len(text) + 1 \/ text[p] \notin Whitespace

\* the capture of the leftmost match of  word\s+(\w+)  (<<>> without match)
wordAfter(text, word) ==
    LET n == Len(word)
        hit(i) ==
            /\ i + n <= Len(text)
            /\ SubSeq(text, i, i + n - 1) = word
            /\ text[i + n] \in Whitespace
            /\ SkipSpaces(text, i + n) <= Len(text)
            /\ text[SkipSpaces(text, i + n)] \in WordChars
        hits == {i \in 1..Len(text) : hit(i)}
    IN  IF hits = {} THEN <<>>
        ELSE LET i == CHOOSE h \in hits : \A g \in hits : h <= g
                 p == SkipSpaces(text, i + n)
             IN  SubSeq(text, p, WordEnd(text, p))

\* the capture of the leftmost match of  (\w+)\s*op  (<<>> without match)
wordBefore(text, op) ==
    LET hit(i) ==
            /\ text[i] \in WordChars
            /\ LET p == SkipSpaces(text, WordEnd(text, i) + 1)
               IN  /\ p + Len(op) - 1 <= Len(text)
                   /\ SubSeq(text, p, p + Len(op) - 1) = op
        hits == {i \in 1..Len(text) : hit(i)}
    IN  IF hits = {} THEN <<>>
        ELSE LET i == CHOOSE h \in hits : \A g \in hits : h <= g
             IN  SubSeq(text, i, WordEnd(text, i))

extractVariableName(line) ==
    LET trimmed == trimmedLine(line)
        captures == << wordAfter(trimmed, <<"v", "a", "r">>),
                       wordAfter(trimmed, <<"c", "o", "n", "s", "t">>),
                       wordAfter(trimmed, <<"l", "e", "t">>),
                       wordBefore(trimmed, <<":", "=">>),
                       wordBefore(trimmed, <<"=">>) >>
        good(v) == Len(v) > 2 /\ v \notin { <<"e", "r", "r">>, <<"n", "i", "l">>, <<"t", "r", "u", "e">>, <<"f", "a", "l", "s", "e">> }
        goods == {k \in 1..5 : good(captures[k])}
    IN  IF goods = {} THEN <<>>
        ELSE captures[CHOOSE k \in goods : \A g \in goods : k <= g]

extractComment(line) ==
    LET trimmed == trimmedLine(line)
        slashes == TrimSpace(From(trimmed, Index(trimmed, <<"/", "/">>) + 2))
        hash == TrimSpace(From(trimmed, 2))
    IN  IF Contains(trimmed, <<"/", "/">>) /\ Len(slashes) > 5 THEN slashes
        ELSE IF /\ HasPrefix(trimmed, <<"#">>)
                /\ ~HasPrefix(trimmed, <<"#", "i", "n", "c", "l", "u", "d", "e">>)
                /\ Len(hash) > 5
        THEN hash
        ELSE <<>>

isImportLine(line) ==
    LET trimmed == TrimSpace(From(line, 2)) IN
    \/ HasPrefix(trimmed, <<"i", "m", "p", "o", "r", "t", " ">>)
    \/ HasPrefix(trimmed, <<"f", "r", "o", "m", " ">>)
    \/ HasPrefix(trimmed, <<"#", "i", "n", "c", "l", "u", "d", "e">>)
    \/ HasPrefix(trimmed, <<"r", "e", "q", "u", "i", "r", "e", "(">>)
    \/ HasPrefix(trimmed, <<"c", "o", "n", "s", "t", " ">>) /\ Contains(trimmed, <<"r", "e", "q", "u", "i", "r", "e", "(">>)
    \/ HasPrefix(trimmed, <<"u", "s", "e", " ">>)

extractImportName(line) ==
    LET trimmed == TrimSpace(From(line, 2))
        parts == Fields(trimmed)
        importPath == Trim(parts[Len(parts)], {"\""})
        start == Index(trimmed, <<"r", "e", "q", "u", "i", "r", "e", "(">>) + 8
        end == Index(From(trimmed, start), <<")">>)
        pkg == Trim(SubSeq(trimmed, start, start + end - 2), {"\"", "'"})
    IN  IF HasPrefix(trimmed, <<"i", "m", "p", "o", "r", "t", " ">>) /\ Len(parts) >= 2
        THEN LastPathPart(importPath)
        ELSE IF HasPrefix(trimmed, <<"f", "r", "o", "m", " ">>) /\ Len(parts) >= 2
        THEN parts[2]
        ELSE IF Contains(trimmed, <<"r", "e", "q", "u", "i", "r", "e", "(">>) /\ end > 1
        THEN LastPathPart(pkg)
        ELSE <<>>

\* the topics in the order of their declaration, with their keywords; a
\* keyword is kept in DiffInfo.Keywords by its word
Topics == <<"fix", "validation", "api", "security", "performance">>
TopicKeywords ==
    [fix |-> {"bug", "fix", "error", "crash", "issue", "problem"},
     validation |-> {"validate", "validation", "check", "verify", "sanitize"},
     api |-> {"endpoint", "route", "handler", "api", "request", "response"},
     security |-> {"auth", "security", "permission", "token", "encrypt"},
     performance |-> {"optimize", "performance", "cache", "speed", "efficient"}]
Spelling ==
    [bug |-> <<"b", "u", "g">>,
     fix |-> <<"f", "i", "x">>,
     error |-> <<"e", "r", "r", "o", "r">>,
     crash |-> <<"c", "r", "a", "s", "h">>,
     issue |-> <<"i", "s", "s", "u", "e">>,
     problem |-> <<"p", "r", "o", "b", "l", "e", "m">>,
     validate |-> <<"v", "a", "l", "i", "d", "a", "t", "e">>,
     validation |-> <<"v", "a", "l", "i", "d", "a", "t", "i", "o", "n">>,
     check |-> <<"c", "h", "e", "c", "k">>,
     verify |-> <<"v", "e", "r", "i", "f", "y">>,
     sanitize |-> <<"s", "a", "n", "i", "t", "i", "z", "e">>,
     endpoint |-> <<"e", "n", "d", "p", "o", "i", "n", "t">>,
     route |-> <<"r", "o", "u", "t", "e">>,
     handler |-> <<"h", "a", "n", "d", "l", "e", "r">>,
     api |-> <<"a", "p", "i">>,
     request |-> <<"r", "e", "q", "u", "e", "s", "t">>,
     response |-> <<"r", "e", "s", "p", "o", "n", "s", "e">>,
     auth |-> <<"a", "u", "t", "h">>,
     security |-> <<"s", "e", "c", "u", "r", "i", "t", "y">>,
     permission |-> <<"p", "e", "r", "m", "i", "s", "s", "i", "o", "n">>,
     token |-> <<"t", "o", "k", "e", "n">>,
     encrypt |-> <<"e", "n", "c", "r", "y", "p", "t">>,
     optimize |-> <<"o", "p", "t", "i", "m", "i", "z", "e">>,
     performance |-> <<"p", "e", "r", "f", "o", "r", "m", "a", "n", "c", "e">>,
     cache |-> <<"c", "a", "c", "h", "e">>,
     speed |-> <<"s", "p", "e", "e", "d">>,
     efficient |-> <<"e", "f", "f", "i", "c", "i", "e", "n", "t">>]

NoCounts5 == [t \in {Topics[k] : k \in 1..5} |-> 0]

KeywordsIn(lineLower) ==
    {kw \in DOMAIN Spelling : Contains(lineLower, Spelling[kw])}

AppendNew(list, item) ==
    IF item # <<>> /\ \A i \in 1..Len(list) : list[i] # item
    THEN Append(list, item) ELSE list

\* the body of the loop for an added line
addedLine(info, line) ==
    LET lineLower == ToLower(line)
        comment == extractComment(line)
    IN  [info EXCEPT
           !.LinesAdded = @ + 1,
           !.Functions = AppendNew(@, extractFunctionName(line)),
           !.Variables = AppendNew(@, extractVariableName(line)),
           !.Imports = IF isImportLine(line)
                       THEN AppendNew(@, extractImportName(line)) ELSE @,
           !.Comments = IF comment # <<>> THEN Append(@, comment) ELSE @,
           !.Keywords = @ \cup KeywordsIn(lineLower),
           !.HasTests = @ \/ Contains(lineLower, <<"t", "e", "s", "t">>),
           !.HasDocs = \/ @
                       \/ Contains(line, <<"/", "/">>)
                       \/ Contains(line, <<"/", "*">>)
                       \/ Contains(line, <<"#">>)]
addedCounts(counts, line) ==
    [t \in DOMAIN counts |->
       counts[t] + Cardinality(TopicKeywords[t] \cap KeywordsIn(ToLower(line)))]

isAddedLine(line) == HasPrefix(line, <<"+">>) /\ ~HasPrefix(line, <<"+", "+", "+">>)
isRemovedLine(line) == HasPrefix(line, <<"-">>) /\ ~HasPrefix(line, <<"-", "-", "-">>)

\* the loop of parseDiffOutput over lines[i..]: the info and the counts
RECURSIVE scanLines(_, _, _, _)
scanLines(lines, i, info, counts) ==
    IF i > Len(lines) THEN [info |-> info, counts |-> counts]
    ELSE LET line == lines[i] IN
         IF isAddedLine(line)
         THEN scanLines(lines, i + 1, addedLine(info, line),
                        addedCounts(counts, line))
         ELSE IF isRemovedLine(line)
         THEN scanLines(lines, i + 1,
                        [info EXCEPT !.LinesRemoved = @ + 1], counts)
         ELSE scanLines(lines, i + 1, info, counts)

\* the contexts the final loop can choose: it ranges over a map, whose
\* iteration order is not fixed, and keeps the first strictly larger count
dominantContexts(counts) ==
    IF \A t \in DOMAIN counts : counts[t] = 0 THEN {""}
    ELSE {t \in DOMAIN counts : \A u \in DOMAIN counts : counts[u] <= counts[t]}

\* the DiffInfo records parseDiffOutput can return for the text
parseDiffOutput(diff) ==
    LET scan == scanLines(SplitLines(diff), 1, NoDiff, NoCounts5)
    IN  {[scan.info EXCEPT !.Context = c] : c \in dominantContexts(scan.counts)}

\* ------------------------------------------------------------------------
\* The analysis of one change record: getFileDiff, then analyzeFileChange.
\*   an.file, an.status: the change record.
\*   an.text: the output of git diff for the file.
\*   an.diff: the DiffInfo parsed from it.
\*   an.type, an.scope, an.raw, an.message: commitType, scope, rawMessage
\*        and message of analyzeFileChange.
\*   an.pc: "diff", "parsed" (getFileDiff returned), "analyzed".
\* ------------------------------------------------------------------------
MaxDiffLines == 4

\* the lines a diff text is composed of, in the order they appear
DiffLineCatalog ==
    << <<"+", "f", "u", "n", "c", " ", "V", "a", "l", "i", "d", "a", "t", "e", "T", "o", "k", "e", "n", "(", "t", " ", "s", "t", "r", "i", "n", "g", ")", " ", "b", "o", "o", "l", " ", "{">>,
       <<"+", "f", "u", "n", "c", " ", "r", "u", "n", "(", ")", " ", "{">>,
       <<"+", "f", "u", "n", "c", " ", "l", "o", "a", "d", "(", ")", " ", "{">>,
       <<"+", "f", "u", "n", "c", " ", "s", "a", "v", "e", "(", ")", " ", "{">>,
       <<"+", "f", "u", "n", "c", " ", "s", "t", "o", "p", "(", ")", " ", "{">>,
       <<"+", "/", "/", " ", "f", "i", "x", " ", "c", "r", "a", "s", "h", " ", "i", "n", " ", "p", "a", "r", "s", "e", " ", "l", "o", "o", "p">>,
       <<"+", "i", "f", " ", "c", "h", "e", "c", "k", "(", "x", ")", " ", "{">>,
       <<"+", "l", "o", "g", "(", "e", "r", "r", "o", "r", ")">>,
       <<"+", "i", "m", "p", "o", "r", "t", " ", "\"", "n", "e", "t", "/", "h", "t", "t", "p", "\"">>,
       <<"-", "x", " ", ":", "=", " ", "1">>,
       <<"-", "y", " ", ":", "=", " ", "2">>,
       <<"-", "r", "e", "t", "u", "r", "n", " ", "x">>,
       <<"+", "t", "o", "t", "a", "l", " ", ":", "=", " ", "1">> >>

\* the catalog lines numbered by picked, each terminated by "\n"
RECURSIVE PickLines(_, _)
PickLines(picked, i) ==
    IF i > Len(DiffLineCatalog) THEN <<>>
    ELSE (IF i \in picked THEN DiffLineCatalog[i] \o <<"\n">> ELSE <<>>)
         \o PickLines(picked, i + 1)

DiffTexts ==
    { PickLines(picked, 1) :
        picked \in {p \in SUBSET (1..Len(DiffLineCatalog)) :
                      Cardinality(p) <= MaxDiffLines} }

AnalysisPaths ==
    { <<"m", "a", "i", "n", ".", "g", "o">>, <<"s", "r", "c", "/", "a", "u", "t", "h", "/", "l", "o", "g", "i", "n", ".", "g", "o">>, <<"d", "o", "c", "s", "/", "n", "o", "t", "e", "s", ".", "m", "d">>,
      <<"d", "o", "c", "s", "/", "l", "a", "t", "e", "s", "t", ".", "m", "d">> }
AnalysisStatuses == { <<"M", " ">>, <<"A", " ">> }

AnalysisIdle ==
    [file |-> <<>>, status |-> <<>>, text |-> <<>>, diff |-> NoDiff,
     type |-> "", scope |-> <<>>, raw |-> <<>>, message |-> <<>>,
     pc |-> "idle"]

\* ------------------------------------------------------------------------
\* Conflict resolution.  The content of a file is the sequence of its
\* characters.
\*   wt: the working tree: the content of each file, the files git reports
\*       as unmerged, the files whose change is staged (index), and the
\*       last resolution applied (path, strategy and
\*       the content it read).
\* ------------------------------------------------------------------------
OursMarker == <<"<", "<", "<", "<", "<", "<", "<", " ">>
Separator == <<"=", "=", "=", "=", "=", "=", "=">>
TheirsMarker == <<">", ">", ">", ">", ">", ">", ">", " ">>

\* strings.Join(lines, "\n")
RECURSIVE Join(_)
Join(lines) ==
    IF lines = <<>> THEN <<>>
    ELSE IF Len(lines) = 1 THEN lines[1]
    ELSE lines[1] \o <<"\n">> \o Join(Tail(lines))

\* the loop of parseConflictMarkers from line i on; st holds inConflict,
\* inOurs, lineStart, oursContent, theirsContent and the conflicts found
RECURSIVE scanMarkers(_, _, _)
scanMarkers(lines, i, st) ==
    IF i > Len(lines) THEN st.conflicts
    ELSE LET line == lines[i] IN
         scanMarkers(lines, i + 1,
           IF HasPrefix(line, OursMarker)
           THEN [st EXCEPT !.inConflict = TRUE, !.inOurs = TRUE,
                           !.lineStart = i - 1, !.ours = <<>>, !.theirs = <<>>]
           ELSE IF HasPrefix(line, Separator) /\ st.inConflict
           THEN [st EXCEPT !.inOurs = FALSE]
           ELSE IF HasPrefix(line, TheirsMarker) /\ st.inConflict
           THEN [st EXCEPT !.inConflict = FALSE,
                           !.conflicts =
                               Append(@, [LineStart |-> st.lineStart,
                                          OursContent |-> st.ours,
                                          TheirsContent |-> st.theirs])]
           ELSE IF st.inConflict
           THEN IF st.inOurs THEN [st EXCEPT !.ours = Append(@, line)]
                ELSE [st EXCEPT !.theirs = Append(@, line)]
           ELSE st)

parseConflictMarkers(content) ==
    scanMarkers(SplitLines(content), 1,
                [inConflict |-> FALSE, inOurs |-> FALSE, lineStart |-> 0,
                 ours |-> <<>>, theirs |-> <<>>, conflicts |-> <<>>])

\* the regular expressions of resolveConflict match, "." matching no line
\* break, from a text "<<<<<<< " in line i: the rest of that line, one line
\* (ours), the line "=======", one line (theirs) and a line that starts
\* with ">>>>>>> ", each of the five ended by a line break
matchesAt(lines, i) ==
    /\ i + 4 < Len(lines)
    /\ Contains(lines[i], OursMarker)
    /\ lines[i + 2] = Separator
    /\ HasPrefix(lines[i + 4], TheirsMarker)

\* regexp.ReplaceAllString over the lines from line i on: the leftmost
\* match is replaced by "$1\n" (ours, theirs) or "$1\n$2\n" (both), the
\* search goes on behind it
RECURSIVE replaceAll(_, _, _)
replaceAll(lines, i, resolution) ==
    IF i > Len(lines) THEN <<>>
    ELSE IF matchesAt(lines, i)
    THEN LET before == SubSeq(lines[i], 1, Index(lines[i], OursMarker) - 1)
         IN  (CASE resolution = "ours" -> <<before \o lines[i + 1]>>
                [] resolution = "theirs" -> <<before \o lines[i + 3]>>
                [] OTHER -> <<before \o lines[i + 1], lines[i + 3]>>)
             \o replaceAll(lines, i + 5, resolution)
    ELSE <<lines[i]>> \o replaceAll(lines, i + 1, resolution)

\* newContent of resolveConflict
resolvedContent(content, resolution) ==
    Join(replaceAll(SplitLines(content), 1, resolution))

Resolutions == {"ours", "theirs", "both"}

NoResolution == [path |-> "", resolution |-> "", before |-> <<>>]
WorkTreeIdle ==
    [files |-> <<>>, unmerged |-> {}, index |-> {}, last |-> NoResolution]

\* the closure of resolveConflict(index, resolution) for the conflict file
\* path: read the file, rewrite it, write it, git add
resolveConflictTask(tree, path, resolution) ==
    [tree EXCEPT !.files[path] = resolvedContent(tree.files[path], resolution),
                 !.unmerged = @ \ {path},
                 !.last = [path |-> path, resolution |-> resolution,
                           before |-> tree.files[path]]]

\* the conflicted files the resolver is applied to: after a first line,
\* up to MaxRegions regions of up to MaxSide lines a side, the last line
\* ended by a line break or not
MaxSide == 2
MaxRegions == 2

SideLines(letter, n) == [k \in 1..n |-> <<letter>> \o Digit(k)]

Region(o, t) ==
    <<<<"<", "<", "<", "<", "<", "<", "<", " ", "H", "E", "A", "D">>>> \o SideLines("a", o) \o <<Separator>>
    \o SideLines("b", t) \o <<<<">", ">", ">", ">", ">", ">", ">", " ", "d", "e", "v">>>>

RECURSIVE Regions(_)
Regions(shapes) ==
    IF shapes = <<>> THEN <<>>
    ELSE Region(Head(shapes)[1], Head(shapes)[2]) \o Regions(Tail(shapes))

ConflictTexts ==
    { Join(<<<<"p", "a", "c", "k", "a", "g", "e", " ", "m", "a", "i", "n">>>> \o Regions(shapes) \o tail) :
        shapes \in UNION { [1..n -> (0..MaxSide) \X (0..MaxSide)] :
                            n \in 1..MaxRegions },
        tail \in {<<>>, <<<<>>>>} }

PureIdle ==
    gs = StatusIdle /\ fa = FileAnalysisIdle /\ sg = SuggestIdle
    /\ an = AnalysisIdle
    /\ wt = WorkTreeIdle

AuxIdle == ct = CommitTaskIdle /\ PureIdle

\* ------------------------------------------------------------------------
\* Command runner: initial values (the runner is idle under the dispatcher's
\* specifications)
\* ------------------------------------------------------------------------
RunnerIdle ==
    /\ attempt = 0
    /\ retryDelay = 0
    /\ rpc = "idle"
    /\ lockFile = FALSE
    /\ gitOutcome = [err |-> FALSE, mentionsLock |-> FALSE]
    /\ result = [output |-> 0, err |-> "nil"]
    /\ waits = <<>>
    /\ invocations = 0
    /\ hist = [attempts |-> <<>>, checks |-> 0, lockAtStart |-> FALSE,
               removals |-> 0, appearances |-> 0, removedAfter |-> 0]

\* ------------------------------------------------------------------------
\* Specifications of the dispatcher.  m is the model, cmds the commands the
\* last transition issued.  The process has quit once tea.Quit is issued.
\* ------------------------------------------------------------------------
quit == QuitCmd \in cmds

\* prev: where the user was before the last transition
Where(mm) == [tab |-> mm.tab, toolMode |-> mm.toolMode,
              viewMode |-> mm.viewMode, confirmAction |-> mm.confirmAction]

Init ==
    /\ m = initialModel
    /\ cmds = InitCmds
    /\ prev = Where(initialModel)
    /\ TasksIdle
    /\ RunnerIdle
    /\ AuxIdle

\* the user presses one of the keys K
KeyPressOf(K) ==
    /\ ~quit
    /\ \E key \in K :
         LET r == Update(m, [type |-> "key", key |-> key]) IN
         /\ m' = r.m
         /\ cmds' = r.cmds
         /\ prev' = Where(m)
    /\ UNCHANGED <<taskVars, runnerVars, auxVars>>

\* a command task completes with one of the messages M and the dispatcher
\* processes it
DeliverOf(M) ==
    /\ ~quit
    /\ \E msg \in M :
         LET r == Update(m, msg) IN
         /\ m' = r.m
         /\ cmds' = r.cmds
         /\ prev' = Where(m)
    /\ UNCHANGED <<taskVars, runnerVars, auxVars>>

\* time passes
Tick ==
    /\ ~quit
    /\ m.statusExpiry > 0
    /\ m' = [m EXCEPT !.statusExpiry = Max(m.statusExpiry - TickSeconds, 0)]
    /\ cmds' = NoCmds
    /\ prev' = Where(m)
    /\ UNCHANGED <<taskVars, runnerVars, auxVars>>

\* Confirmation scenario: the user moves between the tabs and the tools
\* sub-modes, requests and confirms destructive actions; branch lists and
\* branch comparisons are delivered.
ConfirmKeys == {"1", "2", "3", "4", "enter", "y", "esc", "d", "j", "k", "n",
                "c", "x"}
ConfirmMessages == {msg \in TaskMessages :
                        msg.type \in {"branchesMsg", "comparisonMsg"}}
KeyPressConfirm == KeyPressOf(ConfirmKeys)
DeliverConfirm == DeliverOf(ConfirmMessages)
NextConfirm == KeyPressConfirm \/ DeliverConfirm \/ Tick
SpecConfirm == Init /\ [][NextConfirm]_vars

\* Commit scenario: the user moves between the tabs and works in the commit
\* tab; status refreshes and commit suggestions are delivered.
CommitKeys == {"1", "2", "3", "4", "enter", "esc", "c", "j", "k", " ", "x"}
CommitMessages == {msg \in TaskMessages :
                       msg.type \in {"gitStatusMsg", "commitSuggestionsMsg"}}
KeyPressCommit == KeyPressOf(CommitKeys)
DeliverCommit == DeliverOf(CommitMessages)
NextCommit == KeyPressCommit \/ DeliverCommit \/ Tick
SpecCommit == Init /\ [][NextCommit]_vars

\* Escape scenario: the user opens and closes inputs, the diff view, the
\* branch comparison and the tools sub-modes, and requests resets; change
\* lists (of one file at most), status refreshes and branch comparisons are
\* delivered.
EscapeKeys == {"1", "2", "3", "4", "enter", "esc", "d", "c", "n", "j", "x"}
EscapeMessages == {msg \in TaskMessages :
                       \/ msg.type \in {"gitStatusMsg", "comparisonMsg"}
                       \/ msg.type = "gitChangesMsg" /\ Len(msg.payload) <= 1}
KeyPressEscape == KeyPressOf(EscapeKeys)
DeliverEscape == DeliverOf(EscapeMessages)
NextEscape == KeyPressEscape \/ DeliverEscape
SpecEscape == Init /\ [][NextEscape]_vars

\* Quit scenario: the user moves between the tabs, focuses and blurs the
\* inputs and quits; status refreshes and branch lists are delivered.
QuitKeys == {"1", "2", "3", "4", "c", "n", "esc", "enter", "q", "ctrl+c"}
QuitMessages == {msg \in TaskMessages :
                     msg.type \in {"gitStatusMsg", "branchesMsg"}}
KeyPressQuit == KeyPressOf(QuitKeys)
DeliverQuit == DeliverOf(QuitMessages)
NextQuit == KeyPressQuit \/ DeliverQuit
SpecQuit == Init /\ [][NextQuit]_vars

\* Task scenario: the commands the transitions issue are run by the
\* runtime and their messages are processed; the user stages, unstages and
\* refreshes in the workspace and commits in the commit tab.
MaxInFlight == 3
TaskKeys == {" ", "2", "j", "enter"}

\* the outcomes of the scenario: change lists hold one modified file at most
TaskOutcomes(c) ==
    {o \in TaskResult(c) :
        \A msg \in o.msgs :
            msg.type = "gitChangesMsg" =>
                /\ Len(msg.payload) <= 1
                /\ \A i \in 1..Len(msg.payload) :
                     msg.payload[i].Status = <<"M", " ">>}

InitTasks ==
    /\ m = initialModel
    /\ cmds = InitCmds
    /\ prev = Where(initialModel)
    /\ \E pl \in Placements(InitCmds, NoWatch, EmptyBag) :
         tasks = pl.tasks /\ watch = pl.watch
    /\ RunnerIdle
    /\ AuxIdle

\* the user presses a key; the commands the transition returns are started
KeyPressTasks ==
    /\ \E key \in TaskKeys :
         LET r == Update(m, [type |-> "key", key |-> key]) IN
         /\ InFlight + Cardinality(r.cmds) <= MaxInFlight
         /\ m' = r.m
         /\ cmds' = r.cmds
         /\ prev' = Where(m)
         /\ \E pl \in Placements(r.cmds, watch, tasks) :
              tasks' = pl.tasks /\ watch' = pl.watch
    /\ UNCHANGED <<runnerVars, auxVars>>

\* a command in flight returns: the runtime runs the members of a batch,
\* and passes any other message to Update
RunTask ==
    /\ \E c \in BagToSet(tasks) : \E o \in TaskOutcomes(c) :
         LET t1 == tasks (-) SetToBag({c}) IN
         IF o.members # {}
         THEN /\ InFlight - 1 + Cardinality(o.members) <= MaxInFlight
              /\ tasks' = t1 (+) SetToBag(o.members)
              /\ UNCHANGED <<m, cmds, prev, watch>>
         ELSE \E msg \in o.msgs :
              LET r == Update(m, msg) IN
              /\ m' = r.m
              /\ cmds' = r.cmds
              /\ prev' = Where(m)
              /\ \E pl \in Placements(r.cmds, watch, t1) :
                   tasks' = pl.tasks /\ watch' = pl.watch
    /\ UNCHANGED <<runnerVars, auxVars>>

\* the same for a command in flight that results from the watched command
RunWatched ==
    /\ \E c \in watch.sub : \E o \in TaskOutcomes(c) :
         IF o.members # {}
         THEN /\ InFlight - 1 + Cardinality(o.members) <= MaxInFlight
              /\ watch' = [watch EXCEPT !.sub = (@ \ {c}) \cup o.members]
              /\ UNCHANGED <<m, cmds, prev, tasks>>
         ELSE \E msg \in o.msgs :
              LET r == Update(m, msg) IN
              /\ m' = r.m
              /\ cmds' = r.cmds
              /\ prev' = Where(m)
              /\ watch' = [watch EXCEPT !.sub = @ \ {c}, !.n = @ + 1]
              /\ tasks' = tasks (+) SetToBag(r.cmds)
    /\ UNCHANGED <<runnerVars, auxVars>>

NextTasks == KeyPressTasks \/ RunTask \/ RunWatched
SpecTasks == InitTasks /\ [][NextTasks]_vars


\* ------------------------------------------------------------------------
\* executeGitCommand, one statement per step.
\*   rpc: "loop" (the for condition), "stat" (os.Stat of the lock file),
\*        "exec" (cmd.CombinedOutput), "sleepStat" / "sleepExec" (the two
\*        time.Sleep calls), "done" (returned).
\*   lockFile: .git/index.lock exists; other processes create and remove it.
\*   gitOutcome: what the last invocation did: whether it failed, and
\*        whether its output contains "index.lock".
\*   result: the returned (output, error); an output is the number of the
\*        invocation that produced it, 0 is nil.
\*   waits: the durations slept so far, in ms.
\*   hist: history of the run: what happened in each attempt so far (the
\*        lock file was found, or git was invoked and succeeded, reported a
\*        lock, or failed otherwise), the number of lock checks made,
\*        whether the lock file existed at the start, how often it was
\*        removed and created during the run, and how many lock checks had
\*        been made when it was first removed.
\* ------------------------------------------------------------------------
maxRetries == 3
initialRetryDelay == 100
MaxLockFlips == 2

ErrNil == "nil"
ErrExit == "exit status"
ErrLockContention == "index.lock conflict"

GitOutcomes == [err : BOOLEAN, mentionsLock : BOOLEAN]

\* (faulty variants of the for condition: one attempt too many, one too few)
loopContinuesOneMore(a) == a <= maxRetries
loopContinuesOneLess(a) == a < maxRetries - 1

\* the for condition: attempt < maxRetries
loopContinues(a) == a < maxRetries

\* (faulty variant: every failure is retried)
isLockErrorAnyFailure(o) == o.err

\* err != nil && strings.Contains(string(output), "index.lock")
isLockError(o) == o.err /\ o.mentionsLock

\* what an invocation did, whatever the runner makes of it
OutcomeKind(o) ==
    IF ~o.err THEN "ok" ELSE IF o.mentionsLock THEN "lockerror" ELSE "failed"

InitRunner ==
    /\ m = initialModel
    /\ cmds = NoCmds
    /\ prev = Where(initialModel)
    /\ TasksIdle
    /\ AuxIdle
    /\ attempt = 0
    /\ retryDelay = initialRetryDelay
    /\ rpc = "loop"
    /\ lockFile \in BOOLEAN
    /\ gitOutcome = [err |-> FALSE, mentionsLock |-> FALSE]
    /\ result = [output |-> 0, err |-> ErrNil]
    /\ waits = <<>>
    /\ invocations = 0
    /\ hist = [attempts |-> <<>>, checks |-> 0, lockAtStart |-> lockFile,
               removals |-> 0, appearances |-> 0, removedAfter |-> 0]

\* for attempt := 0; attempt < maxRetries; ... and the return after the loop
RunnerLoop ==
    /\ rpc = "loop"
    /\ IF loopContinues(attempt)
       THEN /\ rpc' = "stat"
            /\ UNCHANGED result
       ELSE /\ rpc' = "done"
            /\ result' = [output |-> 0, err |-> ErrLockContention]
    /\ UNCHANGED <<uiVars, auxVars, attempt, retryDelay, lockFile, gitOutcome, waits,
                   invocations, hist>>

\* if _, err := os.Stat(lockFile); err == nil { time.Sleep(retryDelay) ...
RunnerStat ==
    /\ rpc = "stat"
    /\ IF lockFile
       THEN /\ rpc' = "sleepStat"
            /\ waits' = Append(waits, retryDelay)
            /\ hist' = [hist EXCEPT !.attempts = Append(@, "lockfile"),
                                    !.checks = @ + 1]
       ELSE /\ rpc' = "exec"
            /\ hist' = [hist EXCEPT !.checks = @ + 1]
            /\ UNCHANGED waits
    /\ UNCHANGED <<uiVars, auxVars, attempt, retryDelay, lockFile, gitOutcome, result,
                   invocations>>

\* output, err := cmd.CombinedOutput(), and the test that follows it
RunnerExec ==
    /\ rpc = "exec"
    /\ \E o \in GitOutcomes :
         /\ gitOutcome' = o
         /\ invocations' = invocations + 1
         /\ hist' = [hist EXCEPT !.attempts = Append(@, OutcomeKind(o))]
         /\ IF isLockError(o)
            THEN /\ rpc' = "sleepExec"
                 /\ waits' = Append(waits, retryDelay)
                 /\ UNCHANGED result
            ELSE /\ rpc' = "done"
                 /\ result' = [output |-> invocations + 1,
                               err |-> IF o.err THEN ErrExit ELSE ErrNil]
                 /\ UNCHANGED waits
    /\ UNCHANGED <<uiVars, auxVars, attempt, retryDelay, lockFile>>

\* (faulty variant: the delay is doubled after either sleep)
RunnerWakeAlwaysDoubles ==
    /\ rpc \in {"sleepStat", "sleepExec"}
    /\ retryDelay' = retryDelay * 2
    /\ attempt' = attempt + 1
    /\ rpc' = "loop"
    /\ UNCHANGED <<uiVars, auxVars, lockFile, gitOutcome, result, waits, invocations,
                   hist>>

\* the sleep ends: continue (attempt++), after retryDelay *= 2 in the
\* lock-error branch
RunnerWake ==
    /\ rpc \in {"sleepStat", "sleepExec"}
    /\ retryDelay' = IF rpc = "sleepExec" THEN retryDelay * 2 ELSE retryDelay
    /\ attempt' = attempt + 1
    /\ rpc' = "loop"
    /\ UNCHANGED <<uiVars, auxVars, lockFile, gitOutcome, result, waits, invocations,
                   hist>>

\* another process removes, or creates, the lock file
LockDisappears ==
    /\ rpc \notin {"idle", "done"}
    /\ lockFile
    /\ hist.removals + hist.appearances < MaxLockFlips
    /\ lockFile' = FALSE
    /\ hist' = [hist EXCEPT !.removals = @ + 1,
                            !.removedAfter =
                                IF hist.removals = 0 THEN hist.checks ELSE @]
    /\ UNCHANGED <<uiVars, auxVars, attempt, retryDelay, rpc, gitOutcome, result, waits,
                   invocations>>

LockAppears ==
    /\ rpc \notin {"idle", "done"}
    /\ ~lockFile
    /\ hist.removals + hist.appearances < MaxLockFlips
    /\ lockFile' = TRUE
    /\ hist' = [hist EXCEPT !.appearances = @ + 1]
    /\ UNCHANGED <<uiVars, auxVars, attempt, retryDelay, rpc, gitOutcome, result, waits,
                   invocations>>

NextRunner ==
    \/ RunnerLoop \/ RunnerStat \/ RunnerExec \/ RunnerWake
    \/ LockDisappears \/ LockAppears

SpecRunner == InitRunner /\ [][NextRunner]_vars


\* ------------------------------------------------------------------------
\* The commit task: steps
\* ------------------------------------------------------------------------
InitCommitTask ==
    /\ m = initialModel
    /\ cmds = NoCmds
    /\ prev = Where(initialModel)
    /\ TasksIdle
    /\ RunnerIdle
    /\ PureIdle
    /\ \E index \in SUBSET (1..MaxNames) :
         ct = [CommitTaskIdle EXCEPT !.pc = "check", !.index = index]

\* git diff --cached --name-only fails
CommitCheckFails ==
    /\ ct.pc = "check"
    /\ ct' = [ct EXCEPT !.pc = "done", !.checks = @ + 1, !.atCheck = ct.index,
                        !.reply = MsgCheckFailed]
    /\ UNCHANGED <<uiVars, runnerVars, pureVars>>

\* git diff --cached --name-only prints the staged names
CommitCheck ==
    /\ ct.pc = "check"
    /\ LET out == NameLines(ct.index, 1) IN
       ct' = IF nothingStaged(out)
             THEN [ct EXCEPT !.pc = "done", !.checks = @ + 1, !.seen = out,
                             !.atCheck = ct.index,
                             !.reply = MsgNoStagedChanges]
             ELSE [ct EXCEPT !.pc = "commit", !.checks = @ + 1, !.seen = out,
                             !.atCheck = ct.index]
    /\ UNCHANGED <<uiVars, runnerVars, pureVars>>

\* executeGitCommand(repoPath, "commit", "-m", message) returns
CommitInvoke ==
    /\ ct.pc = "commit"
    /\ \E err \in {ErrNil, ErrExit, ErrLockContention} :
         ct' = [ct EXCEPT !.pc = "done", !.commits = @ + 1,
                         !.index = IF err = ErrNil THEN {} ELSE @,
                         !.reply = IF err = ErrNil THEN MsgCommitted
                                   ELSE MsgCommitFailed]
    /\ UNCHANGED <<uiVars, runnerVars, pureVars>>

\* another process or task stages or unstages a file
IndexChanges ==
    /\ ct.pc # "idle"
    /\ \E i \in 1..MaxNames :
         ct' = [ct EXCEPT !.index = IF i \in @ THEN @ \ {i} ELSE @ \cup {i}]
    /\ UNCHANGED <<uiVars, runnerVars, pureVars>>

NextCommitTask == CommitCheckFails \/ CommitCheck \/ CommitInvoke \/ IndexChanges
SpecCommitTask == InitCommitTask /\ [][NextCommitTask]_vars

\* ------------------------------------------------------------------------
\* The status loaders: each parses the output of its own invocation of
\* git status --porcelain (here the same text)
\* ------------------------------------------------------------------------
InitStatus ==
    /\ m = initialModel
    /\ cmds = NoCmds
    /\ prev = Where(initialModel)
    /\ TasksIdle
    /\ RunnerIdle
    /\ ct = CommitTaskIdle
    /\ fa = FileAnalysisIdle
    /\ sg = SuggestIdle
    /\ an = AnalysisIdle
    /\ wt = WorkTreeIdle
    /\ \E text \in StatusTexts : gs = [StatusIdle EXCEPT !.text = text]

\* loadGitStatus: status.StagedFiles, status.UnstagedFiles, status.Clean =
\* parseGitStatusOutput(statusText)
LoadGitStatusParse ==
    /\ ~gs.counted
    /\ gs' = [gs EXCEPT !.status = parseGitStatusOutput(gs.text),
                        !.counted = TRUE]
    /\ UNCHANGED <<uiVars, runnerVars, ct, fa, sg, an, wt>>

\* loadGitChanges: changes := parseGitStatus(string(statusOutput))
LoadGitChangesParse ==
    /\ ~gs.listed
    /\ gs' = [gs EXCEPT !.changes = parseGitStatus(gs.text),
                        !.listed = TRUE]
    /\ UNCHANGED <<uiVars, runnerVars, ct, fa, sg, an, wt>>

\* the closure of gitReset: statusText := strings.TrimSpace(...); stagedCount
\* := parseGitStatusOutput(statusText); no command if it is 0, else
\* git reset HEAD, which succeeds or fails
GitResetTask ==
    /\ ~gs.reset.done
    /\ LET statusText == TrimSpace(gs.text)
           stagedCount == parseGitStatusOutput(statusText).stagedFiles
       IN  IF stagedCount = 0
           THEN gs' = [gs EXCEPT !.reset = [done |-> TRUE, issued |-> FALSE,
                                            stagedCount |-> 0,
                                            message |-> "no-staged-changes"]]
           ELSE \E failed \in BOOLEAN :
                gs' = [gs EXCEPT !.reset =
                         [done |-> TRUE, issued |-> TRUE,
                          stagedCount |-> stagedCount,
                          message |-> IF failed THEN "reset-failed"
                                      ELSE "reset-count"]]
    /\ UNCHANGED <<uiVars, runnerVars, ct, fa, sg, an, wt>>

NextStatus == LoadGitStatusParse \/ LoadGitChangesParse \/ GitResetTask
SpecStatus == InitStatus /\ [][NextStatus]_vars

\* ------------------------------------------------------------------------
\* The classifier applied to one change record
\* ------------------------------------------------------------------------
InitClassify ==
    /\ m = initialModel
    /\ cmds = NoCmds
    /\ prev = Where(initialModel)
    /\ TasksIdle
    /\ RunnerIdle
    /\ ct = CommitTaskIdle
    /\ gs = StatusIdle
    /\ sg = SuggestIdle
    /\ an = AnalysisIdle
    /\ wt = WorkTreeIdle
    /\ \E file \in ChangedPaths, status \in StatusCodes, diff \in PlainDiffs :
         fa = [FileAnalysisIdle EXCEPT !.file = file, !.status = status,
                                       !.diff = diff, !.pc = "start"]

\* analyzeFileChange: commitType := determineAdvancedCommitType(file,
\* status, diff)
Classify ==
    /\ fa.pc = "start"
    /\ fa' = [fa EXCEPT
                !.type = determineAdvancedCommitType(fa.file, fa.status, fa.diff),
                !.pc = "typed"]
    /\ UNCHANGED <<uiVars, runnerVars, ct, gs, sg, an, wt>>

NextClassify == Classify
SpecClassify == InitClassify /\ [][NextClassify]_vars

\* ------------------------------------------------------------------------
\* The classifier applied to a modified source file with every pair of
\* line counts up to MaxChangedLines
\* ------------------------------------------------------------------------
MaxChangedLines == 12
SourcePaths ==
    { <<"m", "a", "i", "n", ".", "g", "o">>,
      <<"s", "r", "c", "/", "u", "i", "/", "v", "i", "e", "w", ".", "g", "o">> }
ModifiedCodes == { <<"M", " ">>, <<" ", "M">>, <<"M", "M">> }
CountedDiffs ==
    LET all == { [NoDiff EXCEPT !.LinesAdded = a, !.LinesRemoved = r,
                                !.Functions = SubSeq(FunctionNames, 1, f)] :
                   a \in 0..MaxChangedLines, r \in 0..MaxChangedLines,
                   f \in 0..1 }
    IN  { d \in all : Len(d.Functions) <= d.LinesAdded }

InitLineRules ==
    /\ m = initialModel
    /\ cmds = NoCmds
    /\ prev = Where(initialModel)
    /\ TasksIdle
    /\ RunnerIdle
    /\ ct = CommitTaskIdle
    /\ gs = StatusIdle
    /\ sg = SuggestIdle
    /\ an = AnalysisIdle
    /\ wt = WorkTreeIdle
    /\ \E file \in SourcePaths, status \in ModifiedCodes, diff \in CountedDiffs :
         fa = [FileAnalysisIdle EXCEPT !.file = file, !.status = status,
                                       !.diff = diff, !.pc = "start"]

SpecLineRules == InitLineRules /\ [][NextClassify]_vars

\* ------------------------------------------------------------------------
\* analyzeChangesForCommits, one change record per step
\* ------------------------------------------------------------------------
InitSuggest ==
    /\ m = initialModel
    /\ cmds = NoCmds
    /\ prev = Where(initialModel)
    /\ TasksIdle
    /\ RunnerIdle
    /\ ct = CommitTaskIdle
    /\ gs = StatusIdle
    /\ fa = FileAnalysisIdle
    /\ sg = [SuggestIdle EXCEPT !.pc = "files"]
    /\ an = AnalysisIdle
    /\ wt = WorkTreeIdle

\* the loop body: diffInfo := getFileDiff(...); analysis :=
\* analyzeFileChange(change, diffInfo); append the suggestion
AnalyzeChange ==
    /\ sg.pc = "files"
    /\ Len(sg.individual) < MaxFiles
    /\ \E file \in ComposePaths, status \in ComposeStatuses,
          diff \in ComposeDiffs :
         sg' = [sg EXCEPT !.individual =
                  Append(@, analyzeFileChange([File |-> file,
                                               Status |-> status], diff))]
    /\ UNCHANGED <<uiVars, runnerVars, ct, gs, fa, an, wt>>

\* (faulty variant: the individual suggestions follow whatever their number)
CombineUncapped ==
    /\ sg.pc = "files"
    /\ sg.tabs = 4
    /\ \E combined \in
            IF sg.individual = <<>> THEN {[Type |-> "", Message |-> <<>>]}
            ELSE generateCombinedSuggestion(sg.individual) :
         LET first == IF combined.Message # <<>> THEN <<combined>> ELSE <<>>
             rest == [i \in 1..Len(sg.individual) |->
                        [Type |-> sg.individual[i].Type,
                         Message |-> sg.individual[i].Message]]
             all == first \o rest
         IN  sg' = [sg EXCEPT !.suggestions = SubSeq(all, 1, Min(9, Len(all))),
                              !.pc = "done"]
    /\ UNCHANGED <<uiVars, runnerVars, ct, gs, fa, an, wt>>

\* after the loop: the combined suggestion first (if its message is not
\* empty), then the individual ones (5 or fewer), at most 9 in all
Combine ==
    /\ sg.pc = "files"
    /\ sg.tabs = 4
    /\ \E combined \in
            IF sg.individual = <<>> THEN {[Type |-> "", Message |-> <<>>]}
            ELSE generateCombinedSuggestion(sg.individual) :
         LET first == IF combined.Message # <<>> THEN <<combined>> ELSE <<>>
             rest == IF Len(sg.individual) <= 5
                     THEN [i \in 1..Len(sg.individual) |->
                             [Type |-> sg.individual[i].Type,
                              Message |-> sg.individual[i].Message]]
                     ELSE <<>>
             all == first \o rest
         IN  sg' = [sg EXCEPT !.suggestions = SubSeq(all, 1, Min(9, Len(all))),
                              !.pc = "done"]
    /\ UNCHANGED <<uiVars, runnerVars, ct, gs, fa, an, wt>>

NextSuggest == AnalyzeChange \/ Combine
SpecSuggest == InitSuggest /\ [][NextSuggest]_vars

\* ------------------------------------------------------------------------
\* analyzeChangesForCommits of both variants on up to MaxAnalyzed change
\* records
\* ------------------------------------------------------------------------
InitAggregate ==
    /\ m = initialModel
    /\ cmds = NoCmds
    /\ prev = Where(initialModel)
    /\ TasksIdle
    /\ RunnerIdle
    /\ ct = CommitTaskIdle
    /\ gs = StatusIdle
    /\ fa = FileAnalysisIdle
    /\ \E tabs \in {4, 6} :
         sg = [SuggestIdle EXCEPT !.pc = "files", !.tabs = tabs]
    /\ an = AnalysisIdle
    /\ wt = WorkTreeIdle

\* the loop body, from the result of the analysis on: message :=
\* formatConventionalCommit(commitType, scope, rawMessage); append
AppendSuggestion ==
    /\ sg.pc = "files"
    /\ Len(sg.individual) < MaxAnalyzed
    /\ \E a \in PerFileAnalyses :
         sg' = [sg EXCEPT !.individual =
                  Append(@, [Type |-> a.Type,
                             Message |-> formatConventionalCommit(a.Type,
                                                                  a.Scope, a.Raw),
                             Scope |-> a.Scope])]
    /\ UNCHANGED <<uiVars, runnerVars, ct, gs, fa, an, wt>>

\* after the loop in the 6-tab variant: the combined suggestion first, then
\* the individual ones (3 or fewer), at most 5 in all
CombineSimple ==
    /\ sg.pc = "files"
    /\ sg.tabs = 6
    /\ \E combined \in
            IF sg.individual = <<>> THEN {[Type |-> "", Message |-> <<>>]}
            ELSE generateSimpleCombinedSuggestion(sg.individual) :
         LET first == IF combined.Message # <<>> THEN <<combined>> ELSE <<>>
             rest == IF Len(sg.individual) <= 3
                     THEN [i \in 1..Len(sg.individual) |->
                             [Type |-> sg.individual[i].Type,
                              Message |-> sg.individual[i].Message]]
                     ELSE <<>>
             all == first \o rest
         IN  sg' = [sg EXCEPT !.suggestions = SubSeq(all, 1, Min(5, Len(all))),
                              !.pc = "done"]
    /\ UNCHANGED <<uiVars, runnerVars, ct, gs, fa, an, wt>>

NextAggregate == AppendSuggestion \/ Combine \/ CombineSimple
SpecAggregate == InitAggregate /\ [][NextAggregate]_vars

\* ------------------------------------------------------------------------
\* resolveConflict on one conflicted file
\* ------------------------------------------------------------------------
InitResolve ==
    /\ m = initialModel
    /\ cmds = NoCmds
    /\ prev = Where(initialModel)
    /\ TasksIdle
    /\ RunnerIdle
    /\ ct = CommitTaskIdle
    /\ gs = StatusIdle
    /\ fa = FileAnalysisIdle
    /\ sg = SuggestIdle
    /\ an = AnalysisIdle
    /\ \E text \in ConflictTexts :
         wt = [files |-> [p \in {"a.go"} |-> text], unmerged |-> {"a.go"},
               index |-> {},
               last |-> NoResolution]

\* the closure of resolveConflict runs for an unmerged file
ResolveFile ==
    /\ \E path \in wt.unmerged, resolution \in Resolutions :
         wt' = resolveConflictTask(wt, path, resolution)
    /\ UNCHANGED <<uiVars, runnerVars, ct, gs, fa, sg, an>>

NextResolve == ResolveFile
SpecResolve == InitResolve /\ [][NextResolve]_vars

\* ------------------------------------------------------------------------
\* Conflict scenario: a merge has left the files of UnmergedPaths with
\* conflict regions; the user works in the conflict view, the commands the
\* transitions issue run against the working tree (git succeeds) and their
\* messages are processed.
\* ------------------------------------------------------------------------
UnmergedPaths == <<"a.go", "b.go">>

ScenarioTexts ==
    { Join(<<<<"p", "a", "c", "k", "a", "g", "e", " ", "m", "a", "i", "n">>>> \o Region(1, 1) \o <<<<>>>>),
      Join(<<<<"p", "a", "c", "k", "a", "g", "e", " ", "m", "a", "i", "n">>>> \o Region(2, 1) \o <<<<>>>>) }

ConflictKeys == {"o", "t", "b", "c", "j"}

\* the most commands in flight once the initial ones have returned
MaxPending == 2

\* loadGitChanges: git status --porcelain lists an unmerged file as "UU",
\* a resolved and staged one as "M "
changesOf(tree) ==
    [i \in 1..Len(UnmergedPaths) |->
       [File |-> UnmergedPaths[i],
        Status |-> IF UnmergedPaths[i] \in tree.unmerged
                   THEN <<"U", "U">> ELSE <<"M", " ">>]]

\* loadConflicts: of the files git diff --name-only --diff-filter=U lists,
\* those in which parseConflictMarkers finds a region, all unresolved
RECURSIVE conflictFilesFrom(_, _)
conflictFilesFrom(tree, i) ==
    IF i > Len(UnmergedPaths) THEN <<>>
    ELSE (IF /\ UnmergedPaths[i] \in tree.unmerged
             /\ parseConflictMarkers(tree.files[UnmergedPaths[i]]) # <<>>
          THEN <<[Path |-> UnmergedPaths[i], IsResolved |-> FALSE]>>
          ELSE <<>>)
         \o conflictFilesFrom(tree, i + 1)

\* what the closure of command c returns in this scenario
conflictOutcome(c, tree) ==
    CASE c.op = "loadGitChanges" ->
           [msgs |-> {Msg("gitChangesMsg", changesOf(tree))}, members |-> {}]
      [] c.op = "loadGitStatus" ->
           [msgs |-> {Msg("gitStatusMsg",
                          [StagedFiles |-> Len(UnmergedPaths)
                                           - Cardinality(tree.unmerged)])},
            members |-> {}]
      [] c.op = "loadConflicts" ->
           [msgs |-> {Msg("conflictsMsg", conflictFilesFrom(tree, 1))},
            members |-> {}]
      [] c.op = "resolveConflict" ->
           [msgs |-> {}, members |-> resolveConflictBatch]
      [] c.op = "continueMerge" -> [msgs |-> {}, members |-> resetBatch]
      [] c.op = "status" ->
           [msgs |-> {Msg("statusMsg", MsgTaskOk)}, members |-> {}]
      [] c.op = "generateCommitSuggestions" ->
           [msgs |-> {Msg("commitSuggestionsMsg", <<>>)}, members |-> {}]
      [] OTHER -> [msgs |-> {Msg("recentCommitsMsg", <<>>)}, members |-> {}]

\* the working tree after the closure of command c has run
treeAfter(c, tree) ==
    IF c.op = "resolveConflict"
    THEN LET target == CHOOSE pr \in Resolutions \X DOMAIN tree.files :
                          c.arg = pr[1] \o ":" \o pr[2]
         IN  resolveConflictTask(tree, target[2], target[1])
    ELSE tree

InitConflicts ==
    /\ m = initialModel
    /\ cmds = InitCmds
    /\ prev = Where(initialModel)
    /\ tasks = SetToBag(InitCmds)
    /\ watch = NoWatch
    /\ RunnerIdle
    /\ ct = CommitTaskIdle
    /\ gs = StatusIdle
    /\ fa = FileAnalysisIdle
    /\ sg = SuggestIdle
    /\ an = AnalysisIdle
    /\ \E texts \in [{UnmergedPaths[i] : i \in 1..Len(UnmergedPaths)}
                        -> ScenarioTexts] :
         wt = [files |-> texts,
               unmerged |-> {UnmergedPaths[i] : i \in 1..Len(UnmergedPaths)},
               index |-> {},
               last |-> NoResolution]

\* the user presses a key; the commands the transition returns are started
KeyPressConflicts ==
    /\ \E key \in ConflictKeys :
         LET r == Update(m, [type |-> "key", key |-> key]) IN
         /\ BagCardinality(tasks) + Cardinality(r.cmds) <= MaxPending
         /\ m' = r.m
         /\ cmds' = r.cmds
         /\ prev' = Where(m)
         /\ tasks' = tasks (+) SetToBag(r.cmds)
    /\ UNCHANGED <<watch, runnerVars, ct, gs, fa, sg, an, wt>>

\* a command in flight returns: the runtime runs the members of a batch,
\* and passes any other message to Update
RunConflictTask ==
    /\ \E c \in BagToSet(tasks) :
         LET o == conflictOutcome(c, wt)
             t1 == tasks (-) SetToBag({c})
         IN  /\ wt' = treeAfter(c, wt)
             /\ IF o.members # {}
                THEN /\ BagCardinality(t1) + Cardinality(o.members)
                          <= MaxPending
                     /\ tasks' = t1 (+) SetToBag(o.members)
                     /\ UNCHANGED <<m, cmds, prev>>
                ELSE \E msg \in o.msgs :
                     LET r == Update(m, msg) IN
                     /\ BagCardinality(t1) + Cardinality(r.cmds) <= MaxPending
                     /\ m' = r.m
                     /\ cmds' = r.cmds
                     /\ prev' = Where(m)
                     /\ tasks' = t1 (+) SetToBag(r.cmds)
    /\ UNCHANGED <<watch, runnerVars, ct, gs, fa, sg, an>>

NextConflicts == KeyPressConflicts \/ RunConflictTask
SpecConflicts == InitConflicts /\ [][NextConflicts]_vars

\* ------------------------------------------------------------------------
\* Stage-all scenario: the files of ModifiedPaths are modified and not
\* staged; the user presses "a" in the workspace, the commands in flight
\* run in any order against the repository and their messages are
\* processed.
\* ------------------------------------------------------------------------
ModifiedPaths == <<"a.go", "b.go">>

StageKeys == {"a", "j"}

\* git status --porcelain: "M " for a staged change, " M" for an unstaged one
porcelainOf(tree) ==
    [i \in 1..Len(ModifiedPaths) |->
       [File |-> ModifiedPaths[i],
        Status |-> IF ModifiedPaths[i] \in tree.index
                   THEN <<"M", " ">> ELSE <<" ", "M">>]]

\* what the closure of command c returns in this scenario; added: whether
\* git add of gitAddAll succeeded
stageOutcome(c, tree, added) ==
    CASE c.op = "gitAddAll" ->
           [msgs |-> {Msg("statusMsg", IF added THEN MsgTaskOk
                                       ELSE MsgTaskFailed)},
            members |-> {}]
      [] c.op = "refreshAfterStaging" ->
           [msgs |-> {}, members |-> refreshAfterStagingBatch]
      [] c.op = "loadGitChanges" ->
           [msgs |-> {Msg("gitChangesMsg", porcelainOf(tree))}, members |-> {}]
      [] c.op = "loadGitStatus" ->
           [msgs |-> {Msg("gitStatusMsg",
                          [StagedFiles |-> Cardinality(tree.index)])},
            members |-> {}]
      [] c.op = "generateCommitSuggestions" ->
           [msgs |-> {Msg("commitSuggestionsMsg", <<>>)}, members |-> {}]
      [] OTHER -> [msgs |-> {Msg("recentCommitsMsg", <<>>)}, members |-> {}]

InitStageAll ==
    /\ m = initialModel
    /\ cmds = InitCmds
    /\ prev = Where(initialModel)
    /\ tasks = SetToBag(InitCmds)
    /\ watch = NoWatch
    /\ RunnerIdle
    /\ ct = CommitTaskIdle
    /\ gs = StatusIdle
    /\ fa = FileAnalysisIdle
    /\ sg = SuggestIdle
    /\ an = AnalysisIdle
    /\ wt = [WorkTreeIdle EXCEPT
               !.files = [p \in {ModifiedPaths[i] : i \in 1..Len(ModifiedPaths)}
                            |-> <<"p", "a", "c", "k", "a", "g", "e", " ", "m", "a", "i", "n">>]]

\* the user presses a key; the commands the transition returns are started
KeyPressStageAll ==
    /\ \E key \in StageKeys :
         LET r == Update(m, [type |-> "key", key |-> key]) IN
         /\ BagCardinality(tasks) + Cardinality(r.cmds) <= MaxPending
         /\ m' = r.m
         /\ cmds' = r.cmds
         /\ prev' = Where(m)
         /\ tasks' = tasks (+) SetToBag(r.cmds)
    /\ UNCHANGED <<watch, runnerVars, ct, gs, fa, sg, an, wt>>

\* a command in flight returns: git add . stages every file if it
\* succeeds; the runtime runs the members of a batch and passes any other
\* message to Update
RunStageTask ==
    /\ \E c \in BagToSet(tasks), added \in BOOLEAN :
         LET o == stageOutcome(c, wt, added)
             t1 == tasks (-) SetToBag({c})
         IN  /\ (c.op # "gitAddAll") => added
             /\ wt' = IF c.op = "gitAddAll" /\ added
                      THEN [wt EXCEPT !.index = DOMAIN wt.files] ELSE wt
             /\ IF o.members # {}
                THEN /\ tasks' = t1 (+) SetToBag(o.members)
                     /\ UNCHANGED <<m, cmds, prev>>
                ELSE \E msg \in o.msgs :
                     LET r == Update(m, msg) IN
                     /\ m' = r.m
                     /\ cmds' = r.cmds
                     /\ prev' = Where(m)
                     /\ tasks' = t1 (+) SetToBag(r.cmds)
    /\ UNCHANGED <<watch, runnerVars, ct, gs, fa, sg, an>>

NextStageAll == KeyPressStageAll \/ RunStageTask
SpecStageAll == InitStageAll /\ [][NextStageAll]_vars

\* ------------------------------------------------------------------------
\* The analysis of one change record: steps
\* ------------------------------------------------------------------------
InitAnalysis ==
    /\ m = initialModel
    /\ cmds = NoCmds
    /\ prev = Where(initialModel)
    /\ TasksIdle
    /\ RunnerIdle
    /\ ct = CommitTaskIdle
    /\ gs = StatusIdle
    /\ fa = FileAnalysisIdle
    /\ sg = SuggestIdle
    /\ wt = WorkTreeIdle
    /\ \E file \in AnalysisPaths, status \in AnalysisStatuses,
          text \in DiffTexts :
         an = [AnalysisIdle EXCEPT !.file = file, !.status = status,
                                   !.text = text, !.pc = "diff"]

\* getFileDiff: return parseDiffOutput(string(output))
ParseDiff ==
    /\ an.pc = "diff"
    /\ \E info \in parseDiffOutput(an.text) :
         an' = [an EXCEPT !.diff = info, !.pc = "parsed"]
    /\ UNCHANGED <<uiVars, runnerVars, ct, gs, fa, sg, wt>>

\* analyzeFileChange(change, diffInfo)
AnalyzeFile ==
    /\ an.pc = "parsed"
    /\ LET commitType ==
               determineAdvancedCommitType(an.file, an.status, an.diff)
           analysis ==
               analyzeFileChange([File |-> an.file, Status |-> an.status],
                                 an.diff)
       IN  an' = [an EXCEPT
                    !.type = analysis.Type,
                    !.scope = analysis.Scope,
                    !.raw = generateSmartCommitMessage(an.file, an.status,
                                                       an.diff, commitType),
                    !.message = analysis.Message,
                    !.pc = "analyzed"]
    /\ UNCHANGED <<uiVars, runnerVars, ct, gs, fa, sg, wt>>

NextAnalysis == ParseDiff \/ AnalyzeFile
SpecAnalysis == InitAnalysis /\ [][NextAnalysis]_vars


\* ------------------------------------------------------------------------
\* Properties of the command runner (SpecRunner)
\* ------------------------------------------------------------------------
LockKinds == {"lockfile", "lockerror"}
LockFileWaits == Cardinality({i \in 1..Len(hist.attempts) :
                                  hist.attempts[i] = "lockfile"})
AllAttemptsLocked ==
    /\ Len(hist.attempts) = maxRetries
    /\ \A i \in 1..Len(hist.attempts) : hist.attempts[i] \in LockKinds

\* C3: in one run the attempts, lock-file waits and git invocations counted
\* together, never exceed 3 (nor do the lock checks); a finished run whose
\* attempts were all consumed by a lock condition returned the
\* lock-contention error and no output.
C3_AttemptsBounded ==
    /\ LockFileWaits + invocations <= 3
    /\ hist.checks <= 3
    /\ Len(waits) <= 3
    /\ (AllAttemptsLocked /\ rpc \notin {"sleepStat", "sleepExec", "loop"})
          => /\ rpc = "done"
             /\ result = [output |-> 0, err |-> ErrLockContention]

\* C3 witness: a run ended in lock contention after a mix of lock-file waits
\* and lock errors of git
C3_Witness ==
    /\ rpc = "done"
    /\ result.err = ErrLockContention
    /\ hist.attempts = <<"lockfile", "lockerror", "lockfile">>

\* the premises of C4: the lock file existed at the start, was removed once
\* during the run and not created again, and no invocation failed
C4_Premise ==
    /\ rpc = "done"
    /\ hist.lockAtStart
    /\ hist.removals = 1
    /\ hist.appearances = 0
    /\ \A i \in 1..Len(hist.attempts) : hist.attempts[i] \in {"lockfile", "ok"}

\* the conclusion of C4: the first attempt after the removal invoked git and
\* the run returned that invocation's output and no error
C4_Conclusion ==
    /\ Len(hist.attempts) = hist.removedAfter + 1
    /\ hist.attempts[hist.removedAfter + 1] = "ok"
    /\ invocations = 1
    /\ result = [output |-> 1, err |-> ErrNil]

\* C4 as claimed: whenever during the run the lock file disappears, the first
\* attempt after the removal invokes git and the run succeeds.
C4_Original == C4_Premise => C4_Conclusion

\* C4 as amended: if the lock file disappears before the runner has made its
\* third (last) lock check, the first attempt after the removal invokes git
\* and the run succeeds.  (A removal during the wait that follows the third
\* check is followed by no attempt: the run returns the lock-contention
\* error.)
C4_SucceedsIfAttemptRemains ==
    (C4_Premise /\ hist.removedAfter < 3) => C4_Conclusion

\* C4 witness: the lock file was found twice, removed during the second
\* wait, and the third attempt invoked git and succeeded
C4_Witness ==
    /\ C4_Premise
    /\ hist.removedAfter = 2
    /\ hist.attempts = <<"lockfile", "lockfile", "ok">>
    /\ result = [output |-> 1, err |-> ErrNil]

\* C5: once an invocation has failed with output that does not mention the
\* lock, the run is over: it returned that invocation's output and error,
\* slept only after the earlier attempts, and the error is not the
\* lock-contention error; the lock-contention error is returned only by a
\* run whose 3 attempts were all consumed by lock conditions.
C5_OtherFailuresReturnImmediately ==
    /\ \A i \in 1..Len(hist.attempts) :
         hist.attempts[i] = "failed"
            => /\ i = Len(hist.attempts)
               /\ rpc = "done"
               /\ result = [output |-> invocations, err |-> ErrExit]
               /\ Len(waits) = i - 1
    /\ result.err = ErrLockContention
          => rpc = "done" /\ AllAttemptsLocked /\ result.output = 0

\* C5 witness: a run whose second invocation failed for another reason than
\* the lock, after a lock error of the first
C5_Witness ==
    /\ rpc = "done"
    /\ hist.attempts = <<"lockerror", "failed">>
    /\ result = [output |-> 2, err |-> ErrExit]
    /\ waits = <<100>>


\* ------------------------------------------------------------------------
\* Properties of the dispatcher
\* ------------------------------------------------------------------------
KeyMsg(key) == [type |-> "key", key |-> key]
KeyMsgs == {KeyMsg(key) : key \in Keys}
Events == KeyMsgs \cup TaskMessages

Destructive(cs) == {c \in cs : c.op \in DestructiveOps}

\* the token has the type of the destructive command c
TokenMatches(tok, c) ==
    \/ c = Cmd("softReset", "HEAD~1") /\ tok = TokSoft
    \/ c = Cmd("mixedReset", "HEAD~1") /\ tok = TokMixed
    \/ c = Cmd("hardReset", "HEAD~1") /\ tok = TokHard
    \/ c.op = "deleteBranch" /\ tok = DeleteToken(c.arg)
    \/ c = Cmd("executeRebase", "") /\ tok = TokRebase

\* C1: a destructive command is issued only by "y", pressed in a state whose
\* token has the command's type, and that transition clears the token; a
\* "y" that issues no destructive command issues no command at all and
\* leaves the token as it is (so does every "y" pressed with no token or
\* with a token of another type); no other key and no completion message
\* issues a destructive command.
C1_DestructiveOnlyOnMatchingConfirm ==
    /\ \A e \in Events :
         LET r == Update(m, e) IN
         /\ \A c \in Destructive(r.cmds) :
              /\ e = KeyMsg("y")
              /\ TokenMatches(m.confirmAction, c)
              /\ r.m.confirmAction = NoToken
              /\ r.cmds = {c}
         /\ (e = KeyMsg("y") /\ Destructive(r.cmds) = {})
              => r.cmds = NoCmds /\ r.m.confirmAction = m.confirmAction
    /\ \A c \in Destructive(cmds) :
         TokenMatches(prev.confirmAction, c) /\ m.confirmAction = NoToken

\* C1 witness: a confirmed hard reset has been issued and the token is gone
C1_Witness ==
    /\ cmds = {Cmd("hardReset", "HEAD~1")}
    /\ prev.confirmAction = TokHard
    /\ m.confirmAction = NoToken

\* the command a "y" confirms in the view the user is in, if the pending
\* token belongs to that view
Confirmable(mm) ==
    IF mm.tab = "tools" /\ mm.toolMode = "undo"
    THEN CASE mm.confirmAction = TokSoft -> {Cmd("softReset", "HEAD~1")}
           [] mm.confirmAction = TokMixed -> {Cmd("mixedReset", "HEAD~1")}
           [] mm.confirmAction = TokHard -> {Cmd("hardReset", "HEAD~1")}
           [] OTHER -> {}
    ELSE IF mm.tab = "branches" /\ ~mm.branchComparison
    THEN {Cmd("deleteBranch", b) : b \in {n \in BranchNames :
                                              mm.confirmAction = DeleteToken(n)}}
    ELSE {}

\* C2: a pending token survives the expiry of its prompt, tab switches and
\* sub-mode changes: no tab switch and no transition that changes the tab,
\* the tools sub-mode, the workspace view or the branch comparison changes
\* it, and in the view the token belongs to a "y" issues the command,
\* whether or not the status message has expired.
C2_TokenSurvivesExpiryAndNavigation ==
    m.confirmAction # NoToken =>
       /\ \A e \in Events :
            LET r == Update(m, e) IN
            (\/ e \in {KeyMsg("1"), KeyMsg("2"), KeyMsg("3"), KeyMsg("4")}
             \/ r.m.tab # m.tab
             \/ r.m.toolMode # m.toolMode
             \/ r.m.viewMode # m.viewMode
             \/ r.m.branchComparison # m.branchComparison)
               => r.m.confirmAction = m.confirmAction
       /\ (~anyInputFocused(m) /\ Confirmable(m) # {})
            => Update(m, KeyMsg("y")).cmds = Confirmable(m)

\* C2 witness: the hard reset was confirmed after the user had been to the
\* branches tab (where "d" on the current branch replaced the prompt) and
\* after the status message (so the older prompt too) had expired
C2_Witness ==
    /\ cmds = {Cmd("hardReset", "HEAD~1")}
    /\ prev.confirmAction = TokHard
    /\ m.statusMsg = MsgCannotDeleteCurrent
    /\ m.statusExpiry = 0

\* C10: every transition that enters the tools tab leaves the tools sub-mode
\* at menu.
C10_ToolsEntryResetsSubMode ==
    /\ \A e \in Events :
         LET r == Update(m, e) IN
         (m.tab # "tools" /\ r.m.tab = "tools") => r.m.toolMode = "menu"
    /\ (prev.tab # "tools" /\ m.tab = "tools") => m.toolMode = "menu"

\* C10 witness: the tools tab was entered from the branches tab, having been
\* left with the history sub-mode open
C10_Witness ==
    /\ prev.tab = "branches"
    /\ prev.toolMode = "history"
    /\ m.tab = "tools"
    /\ m.toolMode = "menu"

\* C6: with no input focused, "2" enters the commit tab (tab commit,
\* selection 0, no command) exactly when the loaded staged-file count is
\* positive; with a count of 0 the tab and every sub-mode stay as they are,
\* the "no staged files" status is set and no command is issued.
C6_CommitEntryGuarded ==
    ~anyInputFocused(m) =>
        LET r == Update(m, KeyMsg("2")) IN
        /\ r.cmds = NoCmds
        /\ m.gitState.StagedFiles > 0 =>
             r.m.tab = "commit" /\ r.m.selectedSuggestion = 0
        /\ m.gitState.StagedFiles = 0 =>
             /\ r.m.tab = m.tab
             /\ r.m.toolMode = m.toolMode
             /\ r.m.viewMode = m.viewMode
             /\ r.m.branchComparison = m.branchComparison
             /\ r.m.statusMsg = MsgNoStaged
             /\ r.m.statusExpiry = 3

\* C6 witness: "2" has been refused in the workspace with nothing staged
C6_Witness ==
    /\ m.statusMsg = MsgNoStaged
    /\ m.statusExpiry = 3
    /\ m.gitState.StagedFiles = 0
    /\ m.tab = "workspace"
    /\ prev.tab = "workspace"
    /\ cmds = NoCmds

\* C7 as stated: whenever the commit tab is open the loaded staged-file
\* count is positive.
C7_Original == m.tab = "commit" => m.gitState.StagedFiles > 0

\* C7 amended: the commit tab is entered only from a state whose loaded
\* staged-file count is positive (the count may fall to 0 while the tab is
\* open).
C7_EntryOnlyWhenStaged ==
    \A e \in Events :
        (m.tab # "commit" /\ Update(m, e).m.tab = "commit")
            => m.gitState.StagedFiles > 0

\* C7 witness: the commit tab has just been entered with a file staged
C7_Witness ==
    /\ prev.tab = "workspace"
    /\ m.tab = "commit"
    /\ m.gitState.StagedFiles > 0

\* the levels an escape can undo, as the set of those that differ between
\* two models
LevelsChanged(a, b) ==
    {l \in {"focus", "diff", "comparison", "toolMode", "token"} :
        CASE l = "focus" -> <<a.commitInput, a.branchInput, a.rebaseInput>>
                              # <<b.commitInput, b.branchInput, b.rebaseInput>>
          [] l = "diff" -> a.viewMode # b.viewMode
          [] l = "comparison" -> a.branchComparison # b.branchComparison
          [] l = "toolMode" -> a.toolMode # b.toolMode
          [] l = "token" -> a.confirmAction # b.confirmAction}

\* the level the priority order names for a model (none if nothing is open)
TopLevel(mm) ==
    IF anyInputFocused(mm) THEN {"focus"}
    ELSE IF mm.viewMode = "diff" THEN {"diff"}
    ELSE IF mm.branchComparison THEN {"comparison"}
    ELSE IF mm.tab = "tools" /\ mm.toolMode # "menu" THEN {"toolMode"}
    ELSE IF mm.confirmAction # NoToken THEN {"token"}
    ELSE {}

\* C8: an escape undoes exactly the one level the priority order names
\* (focused input, then diff view, branch comparison, tools sub-mode, then
\* the token, with the cancellation status) and no other; it never changes
\* the tab and issues no command.
C8_EscapeOneLevel ==
    LET r == Update(m, KeyMsg("esc")) IN
    /\ r.cmds = NoCmds
    /\ r.m.tab = m.tab
    /\ LevelsChanged(m, r.m) = TopLevel(m)
    /\ TopLevel(m) = {"focus"} => ~anyInputFocused(r.m)
    /\ TopLevel(m) = {"diff"} => r.m.viewMode = "files"
    /\ TopLevel(m) = {"comparison"} => ~r.m.branchComparison
    /\ TopLevel(m) = {"toolMode"} => r.m.toolMode = "menu"
    /\ TopLevel(m) = {"token"} =>
         /\ r.m.confirmAction = NoToken
         /\ r.m.statusMsg = MsgCancelled
         /\ r.m.statusExpiry = 2
    /\ TopLevel(m) # {"token"} =>
         r.m.statusMsg = m.statusMsg /\ r.m.statusExpiry = m.statusExpiry

\* C8 witness: in the branches tab an escape has closed the diff view and
\* left the loaded comparison and the pending token as they were
C8_Witness ==
    /\ prev.viewMode = "diff"
    /\ prev.tab = "branches"
    /\ m.tab = "branches"
    /\ m.viewMode = "files"
    /\ m.branchComparison
    /\ m.confirmAction # NoToken
    /\ prev.confirmAction = m.confirmAction

\* the model after one and after two escapes
Esc1(mm) == Update(mm, KeyMsg("esc")).m
Esc2(mm) == Esc1(Esc1(mm))

DiffAndToken(mm) ==
    mm.viewMode = "diff" /\ mm.confirmAction # NoToken /\ ~anyInputFocused(mm)

TwoEscapesCancel(mm) ==
    /\ Esc1(mm).viewMode = "files"
    /\ Esc1(mm).confirmAction = mm.confirmAction
    /\ Esc2(mm).confirmAction = NoToken
    /\ Esc2(mm).statusMsg = MsgCancelled
    /\ Esc2(mm).statusExpiry = 2

C11_Start ==
    /\ m.tab = "workspace"
    /\ m.viewMode = "files"
    /\ m.toolMode = "menu"
    /\ m.confirmAction = NoToken
    /\ ~anyInputFocused(m)
    /\ ~quit

\* quit is one key away from every state, is issued by the quit keys only,
\* and is the only state that accepts nothing further
C11_QuitOnlyTerminal ==
    /\ Update(m, KeyMsg("ctrl+c")).cmds = {QuitCmd}
    /\ ~anyInputFocused(m) => Update(m, KeyMsg("q")).cmds = {QuitCmd}
    /\ \A e \in Events :
         QuitCmd \in Update(m, e).cmds
            => e = KeyMsg("ctrl+c") \/ (e = KeyMsg("q") /\ ~anyInputFocused(m))
    /\ ~quit => (ENABLED KeyPressQuit) /\ (ENABLED DeliverQuit)
    /\ quit => ~(ENABLED NextQuit)

\* C11: the machine starts in the workspace tab, files view, tools sub-mode
\* menu, with no token and no input focused; in every state ctrl+c issues
\* quit, and so does q when no input is focused; nothing else issues quit;
\* every state that has not quit accepts keys and messages, and a state
\* that has quit accepts nothing.
C11_StartAndQuit == C11_Start /\ []C11_QuitOnlyTerminal

\* C11 witness: the process has quit (by ctrl+c) while the branch-name input
\* was focused
C11_Witness ==
    /\ quit
    /\ m.branchInput.focused
    /\ m.tab = "branches"

\* the commands the handlers and Init issue
IssuedOps ==
    {"loadGitChanges", "loadGitStatus", "loadRecentCommits", "loadBranches",
     "loadHistory", "loadReflog", "loadConflicts", "loadBranchComparison",
     "loadRebaseCommits", "generateCommitSuggestions", "toggleStaging",
     "gitAddAll", "gitReset", "commitWithMessage", "switchBranch",
     "createBranch", "deleteBranch", "gitPush", "gitPull", "gitFetch",
     "viewDiff", "resolveConflict", "continueMerge", "softReset",
     "mixedReset", "hardReset", "executeRebase", "refreshAfterCommit",
     "refreshAfterStaging"}

\* the numbers of messages Update processes for one command, as C12 amended
\* states them
ExpectedCounts(op) ==
    CASE op \in {"toggleStaging", "switchBranch", "createBranch", "gitPull",
                 "continueMerge", "softReset", "mixedReset", "hardReset"}
             -> {1, 3}
      [] op \in {"deleteBranch", "gitFetch", "resolveConflict"} -> {1, 2}
      [] op = "refreshAfterStaging" -> {2}
      [] op = "refreshAfterCommit" -> {3}
      [] OTHER -> {1}

\* every command returns one message or one batch, of the expected size,
\* whose members each return one message
EveryTaskReturnsOneMessage ==
    \A op \in IssuedOps : \A o \in TaskResult(Cmd(op, "")) :
        /\ Cardinality(o.msgs) + (IF o.members = {} THEN 0 ELSE 1) = 1
        /\ (IF o.members = {} THEN 1 ELSE Cardinality(o.members))
               \in ExpectedCounts(op)
        /\ \A c \in o.members : \A o2 \in TaskResult(c) :
               Cardinality(o2.msgs) = 1 /\ o2.members = {}

\* the watched command is over: nothing that results from it is in flight
WatchDone == watch.op # "" /\ watch.sub = {}

\* C12 as stated: for a command that is over, exactly one message resulting
\* from it was processed by Update.
C12_Original == WatchDone => watch.n = 1

\* C12 amended: every command task returns exactly one message to the
\* runtime, a completion message or a batch of further commands; for a
\* command that is over Update has processed at least one message that
\* results from it: exactly one for the load commands, add-all, unstage-all,
\* commit, push and every failed command, and one per member of the batch
\* for a successful stage/unstage, branch switch or create, reset, pull (3),
\* branch delete, fetch (2), refresh after staging (2) and refresh after
\* commit (3).
C12_OneMessagePerTaskOrBatchMember ==
    /\ EveryTaskReturnsOneMessage
    /\ watch.op # "" => watch.n + Cardinality(watch.sub) <= 3
    /\ WatchDone => watch.n \in ExpectedCounts(watch.op)

\* C12 witness: a stage/unstage command is over and Update has processed the
\* three messages of its batch
C12_Witness ==
    /\ WatchDone
    /\ watch.op = "toggleStaging"
    /\ watch.n = 3

\* C13: when the completion message of a failed command (any command in
\* flight) is processed, only the status text and its expiry change and the
\* application does not quit.
C13_FailureOnlySetsStatus ==
    \A c \in BagToSet(tasks) \cup watch.sub : \A msg \in FailureResult(c) :
        LET r == Update(m, msg) IN
        /\ [r.m EXCEPT !.statusMsg = m.statusMsg,
                       !.statusExpiry = m.statusExpiry] = m
        /\ QuitCmd \notin r.cmds

\* C14: the commit task checks the staged names before committing: if none
\* was staged when the check ran, git commit is not invoked and the task
\* returns the "no staged changes" status; git commit is invoked only after
\* a check that found a staged name, and once at most.
C14_CommitOnlyAfterNonEmptyCheck ==
    /\ (ct.pc = "done" /\ ct.reply # MsgCheckFailed /\ ct.atCheck = {})
          => ct.commits = 0 /\ ct.reply = MsgNoStagedChanges
    /\ ct.commits > 0
          => ct.commits = 1 /\ ct.checks = 1 /\ ct.atCheck # {}
    /\ ct.pc = "commit" => ct.checks = 1 /\ ct.atCheck # {}
    /\ ct.reply \in {MsgCommitted, MsgCommitFailed} => ct.commits = 1

\* C14 witness: the task found nothing staged and returned without
\* committing, although a file was staged right after the check
C14_Witness ==
    /\ ct.pc = "done"
    /\ ct.atCheck = {}
    /\ ct.reply = MsgNoStagedChanges
    /\ ct.commits = 0
    /\ ct.checks = 1
    /\ ct.index # {}

\* ------------------------------------------------------------------------
\* Properties of the status parsers (SpecStatus)
\* ------------------------------------------------------------------------
\* a line of the form `XY path`: two status columns, a space, a path
IsXYPath(line) ==
    /\ Len(line) >= 4
    /\ line[3] = " "
    /\ TrimSpace(SubSeq(line, 4, Len(line))) # <<>>

\* a porcelain status text: `XY path` lines, each terminated by "\n" (the
\* text after the last terminator is empty)
IsPorcelainText(text) ==
    LET lines == SplitLines(text) IN
    /\ lines[Len(lines)] = <<>>
    /\ \A i \in 1..(Len(lines) - 1) : IsXYPath(lines[i])

ExampleText ==
    <<"M", " ", " ", "a", ".", "g", "o", "\n",
      "?", "?", " ", "b", ".", "g", "o", "\n",
      " ", "D", " ", "c", ".", "g", "o", "\n">>

\* C15: for every porcelain status text the staged count is the number of
\* `XY path` lines whose X is neither space nor '?', the unstaged count is
\* the number of lines whose Y is not space, and a text (porcelain or not)
\* is reported clean iff it is empty.
C15_CountsFollowColumns ==
    gs.counted =>
      LET lines == SplitLines(gs.text) IN
      /\ gs.status.clean <=> (gs.text = <<>>)
      /\ IsPorcelainText(gs.text) =>
            /\ gs.status.stagedFiles =
                  Cardinality({i \in 1..Len(lines) :
                                 /\ IsXYPath(lines[i])
                                 /\ lines[i][1] \notin {" ", "?"}})
            /\ gs.status.unstagedFiles =
                  Cardinality({i \in 1..Len(lines) :
                                 /\ IsXYPath(lines[i])
                                 /\ lines[i][2] # " "})

\* the example: "M  a.go\n?? b.go\n D c.go\n" gives staged 1, unstaged 2
C15_Witness ==
    /\ gs.counted
    /\ gs.text = ExampleText
    /\ IsPorcelainText(gs.text)
    /\ gs.status = [stagedFiles |-> 1, unstagedFiles |-> 2, clean |-> FALSE]

\* C16: a status line shorter than 3 characters is skipped by both loaders:
\* it yields no change record and adds to neither the staged nor the
\* unstaged count, so records and counts come from the lines of 3 or more
\* characters only.
C16_ShortLinesSkipped ==
    LET lines == SplitLines(gs.text)
        long == {i \in 1..Len(lines) :
                   Len(lines[i]) >= 3 /\ TrimSpace(lines[i]) # <<>>}
    IN  /\ gs.listed => Len(gs.changes) = Cardinality(long)
        /\ gs.counted =>
              /\ gs.status.stagedFiles =
                    Cardinality({i \in long : lines[i][1] \notin {" ", "?"}})
              /\ gs.status.unstagedFiles =
                    Cardinality({i \in long : lines[i][2] # " "})

\* ------------------------------------------------------------------------
\* Properties of the classifier (SpecClassify)
\* ------------------------------------------------------------------------
ClassifierTypes == {"feat", "fix", "docs", "test", "chore", "refactor"}
ManifestNames ==
    { <<"p", "a", "c", "k", "a", "g", "e", ".", "j", "s", "o", "n">>,
      <<"g", "o", ".", "m", "o", "d">>,
      <<"r", "e", "q", "u", "i", "r", "e", "m", "e", "n", "t", "s", ".", "t", "x", "t">>,
      <<"C", "a", "r", "g", "o", ".", "t", "o", "m", "l">>,
      <<"p", "o", "m", ".", "x", "m", "l">> }

HasCode(status, c) == \E i \in 1..Len(status) : status[i] = c
IsModified(status) ==
    HasCode(status, "M") /\ ~HasCode(status, "A") /\ ~HasCode(status, "D")

\* the path tests of the claims
DocLike(file) ==
    HasSuffix(file, <<".", "m", "d">>) \/ Contains(file, <<"R", "E", "A", "D", "M", "E">>) \/ Contains(file, <<"d", "o", "c">>)
TestLike(file) ==
    \/ Contains(file, <<"t", "e", "s", "t">>)
    \/ HasSuffix(file, <<"_", "t", "e", "s", "t", ".", "g", "o">>)
    \/ HasSuffix(file, <<".", "t", "e", "s", "t", ".", "j", "s">>)
ConfigLike(file) ==
    \/ Contains(file, <<"c", "o", "n", "f", "i", "g">>)
    \/ \E suffix \in {<<".", "j", "s", "o", "n">>, <<".", "y", "a", "m", "l">>, <<".", "y", "m", "l">>, <<".", "t", "o", "m", "l">>, <<".", "e", "n", "v">>} :
          HasSuffix(file, suffix)
    \/ Base(file) \in {<<"D", "o", "c", "k", "e", "r", "f", "i", "l", "e">>, <<"M", "a", "k", "e", "f", "i", "l", "e">>}
IsManifest(file) == Base(file) \in ManifestNames

\* C17: the classifier returns one of feat, fix, docs, test, chore,
\* refactor; the rule groups are tried in the order new file, deleted,
\* modified, default: a status containing 'A' is decided by the new-file
\* rules (test for a test path, docs for a document, feat otherwise)
\* whatever else the status holds, a status with 'D' and no 'A' is chore,
\* and a status with none of A, D, M is chore.
C17_RuleGroupsInOrder ==
    fa.pc = "typed" =>
      /\ fa.type \in ClassifierTypes
      /\ HasCode(fa.status, "A") =>
            fa.type =
              IF Contains(fa.file, <<"t", "e", "s", "t">>) THEN "test"
              ELSE IF HasSuffix(fa.file, <<".", "m", "d">>) \/ Contains(fa.file, <<"R", "E", "A", "D", "M", "E">>)
              THEN "docs" ELSE "feat"
      /\ (HasCode(fa.status, "D") /\ ~HasCode(fa.status, "A"))
            => fa.type = "chore"
      /\ (\A c \in {"A", "D", "M"} : ~HasCode(fa.status, c))
            => fa.type = "chore"

\* a new file that is also modified, with a diff the modified-file rules
\* would call a fix, is typed by the new-file rules
C17_Witness ==
    /\ fa.pc = "typed"
    /\ fa.status = <<"A", "M">>
    /\ fa.file = <<"m", "a", "i", "n", ".", "g", "o">>
    /\ fa.diff.LinesRemoved > fa.diff.LinesAdded
    /\ fa.type = "feat"

\* C18: for a modified file that matches none of the path rules, with a
\* added lines, r removed lines and functions F: fix if r > a; else feat
\* if F is non-empty or a > 2r; else refactor if a > 0, r > 0 and
\* |a - r| < 10; else fix if a + r < 10; else feat.
C18_ModifiedByLineCounts ==
    ( /\ fa.pc = "typed"
      /\ IsModified(fa.status)
      /\ ~DocLike(fa.file) /\ ~TestLike(fa.file)
      /\ ~ConfigLike(fa.file) /\ ~IsManifest(fa.file) ) =>
      LET a == fa.diff.LinesAdded
          r == fa.diff.LinesRemoved
          F == fa.diff.Functions
      IN  fa.type =
            IF r > a THEN "fix"
            ELSE IF F # <<>> \/ a > 2 * r THEN "feat"
            ELSE IF a > 0 /\ r > 0 /\ a - r < 10 /\ r - a < 10
            THEN "refactor"
            ELSE IF a + r < 10 THEN "fix"
            ELSE "feat"

\* a large balanced rewrite without new functions falls through every
\* rule to the final feat
C18_Witness ==
    /\ fa.pc = "typed"
    /\ fa.status = <<" ", "M">>
    /\ fa.file = <<"m", "a", "i", "n", ".", "g", "o">>
    /\ fa.diff.LinesAdded = 20
    /\ fa.diff.LinesRemoved = 10
    /\ fa.diff.Functions = <<>>
    /\ fa.type = "feat"

\* C19: a modified manifest file (package.json, go.mod, requirements.txt,
\* Cargo.toml, pom.xml) whose path is neither doc-like nor test-like is
\* typed feat when the diff has new imports and chore otherwise.
C19_ManifestByImports ==
    ( /\ fa.pc = "typed"
      /\ IsModified(fa.status)
      /\ IsManifest(fa.file)
      /\ ~DocLike(fa.file) /\ ~TestLike(fa.file) ) =>
      fa.type = IF fa.diff.Imports # <<>> THEN "feat" ELSE "chore"

\* ------------------------------------------------------------------------
\* Properties of the composer (SpecSuggest)
\* ------------------------------------------------------------------------
ConventionalTypes ==
    {"feat", "fix", "docs", "style", "refactor", "test", "chore"}

\* ^(feat|fix|docs|style|refactor|test|chore)(\(.+\))?: .{1,50}
\* (validateCommitMessage); "." is any character but a newline
MatchesConventional(message) ==
    \E t \in ConventionalTypes :
      /\ HasPrefix(message, TypeText[t])
      /\ LET rest == SubSeq(message, Len(TypeText[t]) + 1, Len(message)) IN
         \/ /\ HasPrefix(rest, <<":", " ">>)
            /\ Len(rest) >= 3
            /\ rest[3] # "\n"
         \/ /\ HasPrefix(rest, <<"(">>)
            /\ \E k \in 3..(Len(rest) - 3) :
                 /\ rest[k] = ")"
                 /\ \A j \in 2..(k - 1) : rest[j] # "\n"
                 /\ SubSeq(rest, k + 1, k + 2) = <<":", " ">>
                 /\ rest[k + 3] # "\n"

\* type(scope): description with a non-empty scope, type: description
\* otherwise, the description of at least one character
WellFormed(message, type, scope) ==
    LET head == TypeText[type]
                \o (IF scope # <<>> THEN <<"(">> \o scope \o <<")">> ELSE <<>>)
                \o <<":", " ">>
    IN  HasPrefix(message, head) /\ Len(message) > Len(head)

\* C20: every message the pipeline produces (per file, and the combined
\* suggestion) is type(scope): description when the scope is non-empty and
\* type: description otherwise, with a type of the conventional
\* vocabulary, never an empty pair of parentheses, and a description of at
\* least one character; so it matches the validation pattern.
C20_MessagesWellFormed ==
    /\ \A i \in 1..Len(sg.individual) :
         LET s == sg.individual[i] IN
         /\ s.Type \in ConventionalTypes
         /\ WellFormed(s.Message, s.Type, s.Scope)
         /\ MatchesConventional(s.Message)
    /\ \A i \in 1..Len(sg.suggestions) :
         LET s == sg.suggestions[i] IN
         /\ s.Type \in ConventionalTypes
         /\ \/ WellFormed(s.Message, s.Type, <<>>)
            \/ \E sc \in {scopeIn(sg.individual[j].Message) :
                             j \in 1..Len(sg.individual)} \ {<<>>} :
                 WellFormed(s.Message, s.Type, sc)
         /\ ~HasPrefix(s.Message, TypeText[s.Type] \o <<"(", ")">>)
         /\ MatchesConventional(s.Message)

\* two files of one scope: the combined suggestion carries the scope, the
\* per-file ones follow it
C20_Witness ==
    /\ sg.pc = "done"
    /\ Len(sg.individual) = 2
    /\ Len(sg.suggestions) = 3
    /\ sg.suggestions[1].Message
         = <<"f", "e", "a", "t", "(", "u", "i", ")", ":", " ", "a", "d", "d", " ", "n", "e", "w", " ", "f", "e", "a", "t", "u", "r", "e", "s", " ", "a", "c", "r", "o", "s", "s", " ", "2", " ", "f", "i", "l", "e", "s">>
    /\ \E i \in 1..2 : sg.individual[i].Scope = <<"u", "i">>
    /\ \E i \in 2..3 : \E k \in 1..Len(sg.suggestions[i].Message) :
         sg.suggestions[i].Message[k] = "("

\* ------------------------------------------------------------------------
\* Properties of the analysis of one change record (SpecAnalysis)
\* ------------------------------------------------------------------------
IsModifiedCase(status) == status \in { <<"M", " ">>, <<" ", "M">>, <<"M", "M">> }
BaseNameOf(file) == TrimSuffix(Base(file), Ext(file))

\* the context phrase applied to the first function, or to the base name
ContextWording(file, diff) ==
    contextPrefixOf(diff.Context) \o <<" ">>
    \o (IF diff.Functions # <<>> THEN diff.Functions[1] ELSE BaseNameOf(file))

\* the three kinds of wording that follow the context
FunctionNamed(raw, diff) ==
    \E verb \in { <<"f", "i", "x", " ">>, <<"r", "e", "f", "a", "c", "t", "o", "r", " ">>, <<"u", "p", "d", "a", "t", "e", " ">> } :
       raw = verb \o diff.Functions[1]
CountBased(raw, file, diff) ==
    \E verb \in { <<"r", "e", "f", "a", "c", "t", "o", "r", " ">>, <<"u", "p", "d", "a", "t", "e", " ">> } :
       raw = verb \o Digit(Len(diff.Functions)) \o <<" ", "f", "u", "n", "c", "t", "i", "o", "n", "s", " ", "i", "n", " ">>
             \o BaseNameOf(file)
FilenameBased(raw, file, diff) ==
    /\ Contains(raw, BaseNameOf(file))
    /\ \A i \in 1..Len(diff.Functions) : ~Contains(raw, diff.Functions[i])

\* the wording the context and the number of functions alone would give
ByContextAndFunctions(raw, file, diff) ==
    IF diff.Context # "" THEN raw = ContextWording(file, diff)
    ELSE IF Len(diff.Functions) = 1 THEN FunctionNamed(raw, diff)
    ELSE IF Len(diff.Functions) \in 2..3 THEN CountBased(raw, file, diff)
    ELSE FilenameBased(raw, file, diff)

SrcDirOf(file) ==
    LET parts == SplitPath(file) IN
    IF Len(parts) = 3 /\ parts[1] = <<"s", "r", "c">> THEN parts[2] ELSE <<>>

\* a modified file under src/<dir>/ with exactly one function and the
\* dominant context security (and no descriptive comment)
SecurityCase ==
    /\ an.pc = "analyzed"
    /\ IsModifiedCase(an.status)
    /\ SrcDirOf(an.file) # <<>>
    /\ Len(an.diff.Functions) = 1
    /\ an.diff.Context = "security"
    /\ an.diff.Comments = <<>>

\* modified src/auth/login.go; the diff adds function ValidateToken in its
\* one added line, which contains "token", and removes 3 lines
TokenExample ==
    /\ an.pc = "analyzed"
    /\ an.file = <<"s", "r", "c", "/", "a", "u", "t", "h", "/", "l", "o", "g", "i", "n", ".", "g", "o">>
    /\ IsModifiedCase(an.status)
    /\ an.diff.Functions = << <<"V", "a", "l", "i", "d", "a", "t", "e", "T", "o", "k", "e", "n">> >>
    /\ an.diff.LinesAdded = 1
    /\ an.diff.LinesRemoved = 3
    /\ "token" \in an.diff.Keywords

SecurityMessage ==
    an.message = TypeText[an.type] \o <<"(">> \o SrcDirOf(an.file)
                 \o <<")", ":", " ", "i", "m", "p", "r", "o", "v", "e", " ", "s", "e", "c", "u", "r", "i", "t", "y", " ", "i", "n", " ">> \o an.diff.Functions[1]

NewDocsFile ==
    /\ an.pc = "analyzed"
    /\ an.status = <<"A", " ">>
    /\ HasPrefix(an.file, <<"d", "o", "c", "s", "/">>)
    /\ HasSuffix(an.file, <<".", "m", "d">>)
    /\ an.diff.Functions = <<>>
    /\ an.diff.Imports = <<>>
    /\ an.diff.Comments = <<>>
    /\ an.diff.Keywords = {}

DocsWording ==
    /\ an.type = "docs"
    /\ an.scope = <<"d", "o", "c", "s">>
    /\ an.raw = <<"a", "d", "d", " ">> \o BaseNameOf(an.file) \o <<" ", "d", "o", "c", "u", "m", "e", "n", "t", "a", "t", "i", "o", "n">>

HitCounts(text) == scanLines(SplitLines(text), 1, NoDiff, NoCounts5).counts

\* the topic with the highest count, the one declared first among equals
\* ("" when no keyword was hit)
FirstDeclaredMax(counts) ==
    IF \A k \in 1..5 : counts[Topics[k]] = 0 THEN ""
    ELSE Topics[CHOOSE k \in 1..5 :
                  /\ \A j \in 1..5 : counts[Topics[j]] <= counts[Topics[k]]
                  /\ \A j \in 1..(k - 1) :
                       counts[Topics[j]] < counts[Topics[k]]]

\* C24: dominantContext is the topic with the highest keyword-hit count
\* over the added lines; among topics of equal highest count it is the one
\* declared first (fix, validation, api, security, performance), so it is
\* a function of the diff text; it is empty iff no keyword was hit.
C24_DominantContextByDeclarationOrder ==
    an.pc \in {"parsed", "analyzed"} =>
      /\ an.diff.Context = FirstDeclaredMax(HitCounts(an.text))
      /\ an.diff.Context = "" <=> an.diff.Keywords = {}

\* ------------------------------------------------------------------------
\* Properties of the aggregator (SpecAggregate)
\* ------------------------------------------------------------------------
\* the individual suggestions as the result carries them
Individuals ==
    [i \in 1..Len(sg.individual) |->
       [Type |-> sg.individual[i].Type, Message |-> sg.individual[i].Message]]

IndividualCap == IF sg.tabs = 4 THEN 5 ELSE 3

CombinedOf ==
    IF sg.tabs = 4 THEN generateCombinedSuggestion(sg.individual)
    ELSE generateSimpleCombinedSuggestion(sg.individual)

\* C25: for N >= 1 per-file suggestions the result is the combined
\* suggestion followed by the N individual ones in input order when N is at
\* most the variant's cap (5 with 4 tabs, 3 with 6 tabs) and by nothing when
\* N is larger; its length is between 1 and 9; no input gives no result
C25_CombinedFirstThenCapped ==
    sg.pc = "done" =>
      LET n == Len(sg.individual) IN
      IF n = 0 THEN sg.suggestions = <<>>
      ELSE /\ Len(sg.suggestions) \in 1..9
           /\ sg.suggestions[1] \in CombinedOf
           /\ Tail(sg.suggestions) =
                IF n <= IndividualCap THEN Individuals ELSE <<>>

\* six records in the 4-tab variant: the combined suggestion alone
C25_Witness ==
    /\ sg.pc = "done"
    /\ sg.tabs = 4
    /\ Len(sg.individual) = 6
    /\ Len(sg.suggestions) = 1

\* ------------------------------------------------------------------------
\* Properties of the combined suggestion (SpecSuggest)
\* ------------------------------------------------------------------------
TypeOccurrences(t) ==
    Cardinality({i \in 1..Len(sg.individual) : sg.individual[i].Type = t})

ScopeOccurrences(sc) ==
    Cardinality({i \in 1..Len(sg.individual) : sg.individual[i].Scope = sc})

\* the per-file scope found in strictly more than half of the suggestions
\* (<<>> when there is none)
MajorityScope ==
    LET major == {sg.individual[i].Scope : i \in 1..Len(sg.individual)} \ {<<>>}
        over == {sc \in major : 2 * ScopeOccurrences(sc) > Len(sg.individual)}
    IN  IF over = {} THEN <<>> ELSE CHOOSE sc \in over : TRUE

\* C26: the combined suggestion's type is one with the most occurrences
\* among the per-file suggestions, and its message carries the per-file
\* scope that occurs in strictly more than half of them, or no scope when
\* there is no such scope
C26_CombinedTypeAndScope ==
    (sg.pc = "done" /\ sg.individual # <<>>) =>
      LET combined == sg.suggestions[1]
          types == {sg.individual[i].Type : i \in 1..Len(sg.individual)}
      IN  /\ combined.Type \in types
          /\ \A t \in types : TypeOccurrences(t) <= TypeOccurrences(combined.Type)
          /\ combined.Message =
               formatConventionalCommit(combined.Type, MajorityScope,
                 combinedDescription(types, combined.Type, Len(sg.individual)))

\* ------------------------------------------------------------------------
\* Properties of the digit keys in the commit tab (SpecCommit)
\* ------------------------------------------------------------------------
DigitKeys == <<"1", "2", "3", "4", "5", "6", "7", "8", "9">>

\* what the dispatcher answers to the digit key k in the current state
DigitPressed(k) == Update(m, [type |-> "key", key |-> DigitKeys[k]])

\* C27: in the commit tab with no text input focused and at least k loaded
\* suggestions, the digit key k (1 to 9) issues a commit with the k-th
\* suggestion's message
C27_DigitCommitsSuggestion ==
    \A k \in 1..9 :
      (m.tab = "commit" /\ ~anyInputFocused(m) /\ Len(m.suggestions) >= k) =>
        Cmd("commitWithMessage", m.suggestions[k].Message)
          \in DigitPressed(k).cmds

\* ------------------------------------------------------------------------
\* Properties of the resolution of one file (SpecResolve)
\* ------------------------------------------------------------------------
\* the lines from line i on with every closed region replaced by the
\* lines the strategy keeps, whatever their number
RECURSIVE replaceAllRegions(_, _, _)
replaceAllRegions(lines, i, resolution) ==
    IF i > Len(lines) THEN <<>>
    ELSE IF HasPrefix(lines[i], OursMarker)
    THEN LET sep == CHOOSE k \in (i + 1)..Len(lines) :
                      /\ lines[k] = Separator
                      /\ \A j \in (i + 1)..(k - 1) : lines[j] # Separator
             close == CHOOSE k \in (sep + 1)..Len(lines) :
                        /\ HasPrefix(lines[k], TheirsMarker)
                        /\ \A j \in (sep + 1)..(k - 1) :
                             ~HasPrefix(lines[j], TheirsMarker)
             ours == SubSeq(lines, i + 1, sep - 1)
             theirs == SubSeq(lines, sep + 1, close - 1)
         IN  (CASE resolution = "ours" -> ours
                [] resolution = "theirs" -> theirs
                [] OTHER -> ours \o theirs)
             \o replaceAllRegions(lines, close + 1, resolution)
    ELSE <<lines[i]>> \o replaceAllRegions(lines, i + 1, resolution)

\* the lines of content with every region the marker parser finds replaced
\* by the lines the strategy keeps (the regions of ConflictTexts are closed)
KeptLines(content, resolution) ==
    replaceAllRegions(SplitLines(content), 1, resolution)

\* C30: resolving a file with a strategy rewrites every conflict region the
\* marker parser finds to its ours lines (its theirs lines, its ours lines
\* followed by its theirs lines), whatever the number of lines a side, so
\* that parsing the written content again finds no conflict region
C30_EveryRegionRewritten ==
    wt.last # NoResolution =>
      LET written == wt.files[wt.last.path] IN
      /\ written = Join(KeptLines(wt.last.before, wt.last.resolution))
      /\ parseConflictMarkers(written) = <<>>

\* ------------------------------------------------------------------------
\* Properties of the conflict view (SpecConflicts)
\* ------------------------------------------------------------------------
InConflictView == m.tab = "workspace" /\ m.viewMode = "conflicts"

\* every conflicted file has been resolved and the commands that resulted
\* have finished
EveryFileResolved ==
    /\ InConflictView
    /\ wt.last # NoResolution
    /\ wt.unmerged = {}
    /\ tasks = EmptyBag

\* C28: in the conflict view, once every conflicted file has been resolved
\* with o, t or b, the key c issues the continue-merge command
C28_ContinueAfterResolving ==
    EveryFileResolved =>
      Cmd("continueMerge", "") \in Update(m, [type |-> "key", key |-> "c"]).cmds

\* no transition of the scenario issues the continue-merge command
ContinueMergeNeverIssued == Cmd("continueMerge", "") \notin cmds

\* the original statement of C29: the check is true for every loaded list
C29_Original == allConflictsResolved(m)

\* C29: allConflictsResolved is true exactly when no entry of the list is
\* unresolved; every entry loadConflicts loads is unresolved, so the check
\* is true for the empty list only
C29_TrueForEmptyListOnly ==
    /\ allConflictsResolved(m) <=>
         \A i \in 1..Len(m.conflicts) : m.conflicts[i].IsResolved
    /\ \A i \in 1..Len(m.conflicts) : ~m.conflicts[i].IsResolved
    /\ allConflictsResolved(m) <=> m.conflicts = <<>>

\* conflicts have been loaded into the conflict view and the check fails
C29_Witness ==
    /\ InConflictView
    /\ m.conflicts # <<>>
    /\ ~allConflictsResolved(m)

\* ------------------------------------------------------------------------
\* Properties of the waits of the command runner (SpecRunner)
\* ------------------------------------------------------------------------
\* the lock-related invocation failures among the first n attempts
LockErrorsBefore(n) ==
    Cardinality({j \in 1..n : hist.attempts[j] = "lockerror"})

\* the original statement of C31: the i-th wait lasts 100ms * 2^(i-1),
\* whatever caused it
C31_Original ==
    \A i \in 1..Len(waits) : waits[i] = initialRetryDelay * 2^(i - 1)

\* C31: the i-th wait of a run lasts 100ms * 2^k, k being the number of
\* lock-related invocation failures before it in the run; a wait caused by
\* the lock file does not lengthen the waits that follow
C31_DelayDoublesAfterLockErrors ==
    \A i \in 1..Len(waits) :
        /\ hist.attempts[i] \in {"lockfile", "lockerror"}
        /\ waits[i] = initialRetryDelay * 2^LockErrorsBefore(i - 1)

\* a lock-file wait, a lock error and a lock-file wait: 100, 100, 200 ms
C31_Witness ==
    /\ hist.attempts = <<"lockfile", "lockerror", "lockfile">>
    /\ waits = <<100, 100, 200>>

\* ------------------------------------------------------------------------
\* Properties of escape in the tools tab (SpecEscape)
\* ------------------------------------------------------------------------
EscapePressed == Update(m, [type |-> "key", key |-> "esc"])

\* C32: in the tools tab with a sub-mode other than menu open and no text
\* input focused, one escape closes that sub-view: the tools sub-mode is
\* menu afterwards and the tab is unchanged
C32_EscapeClosesToolsSubMode ==
    (m.tab = "tools" /\ m.toolMode # "menu" /\ ~anyInputFocused(m)) =>
      /\ EscapePressed.m.toolMode = "menu"
      /\ EscapePressed.m.tab = "tools"

\* ------------------------------------------------------------------------
\* Properties of branch deletion (SpecConfirm)
\* ------------------------------------------------------------------------
IsCurrentBranch(name) ==
    \E i \in 1..Len(m.branches) :
        m.branches[i].Name = name /\ m.branches[i].IsCurrent

\* C33: a branch-delete command just issued names the branch of the token
\* that was pending, and that branch is not the one the loaded branch list
\* marks as current
C33_CurrentBranchNeverDeleted ==
    \A c \in cmds :
        c.op = "deleteBranch" =>
          /\ prev.confirmAction = DeletePrefix \o c.arg
          /\ ~IsCurrentBranch(c.arg)

\* ------------------------------------------------------------------------
\* Properties of the unstage-all task (SpecStatus)
\* ------------------------------------------------------------------------
\* the lines of a porcelain text that are staged by the X-column rule
StagedLines(text) ==
    LET lines == SplitLines(text) IN
    {i \in 1..Len(lines) : IsXYPath(lines[i]) /\ lines[i][1] \notin {" ", "?"}}

\* C34: for every porcelain status output, gitReset issues reset HEAD only
\* when at least one line is staged by the X-column rule and reports that
\* number of lines; otherwise it issues nothing and returns "No staged
\* changes to reset"
C34_ResetOnlyWhenStaged ==
    (gs.reset.done /\ IsPorcelainText(gs.text)) =>
      LET staged == Cardinality(StagedLines(gs.text)) IN
      /\ gs.reset.issued <=> staged > 0
      /\ gs.reset.issued => gs.reset.stagedCount = staged
      /\ ~gs.reset.issued => gs.reset.message = "no-staged-changes"

\* ------------------------------------------------------------------------
\* Properties of the change-list refresh (SpecEscape)
\* ------------------------------------------------------------------------
\* a merge-conflict status: an unmerged "U" entry or both-added "AA"
IsConflictStatus(status) ==
    (\E j \in 1..Len(status) : status[j] = "U") \/ status = <<"A", "A">>

\* C35: on every change-list refresh, suggestion generation is issued from
\* the new change list unless some change has a merge-conflict status, in
\* which case conflict loading is issued; a staged new file ("A ") is no
\* conflict
C35_SuggestionsUnlessConflict ==
    \A changes \in ChangeLists :
        LET r == Update(m, Msg("gitChangesMsg", changes)) IN
        /\ r.m.changes = changes
        /\ r.cmds =
             IF \E i \in 1..Len(changes) : IsConflictStatus(changes[i].Status)
             THEN {Cmd("loadConflicts", "")}
             ELSE {Cmd("generateCommitSuggestions", "")}

\* ------------------------------------------------------------------------
\* Properties of stage all (SpecStageAll)
\* ------------------------------------------------------------------------
\* C36: once the add of a stage-all has succeeded and every command in
\* flight has completed, the loaded change list and the staged count are
\* those of the repository after the add
C36_LoadedStateAfterStageAll ==
    (wt.index # {} /\ tasks = EmptyBag) =>
      /\ m.changes = porcelainOf(wt)
      /\ m.gitState.StagedFiles = Cardinality(wt.index)

\* ------------------------------------------------------------------------
\* Properties of the selected suggestion and of input focus (SpecCommit)
\* ------------------------------------------------------------------------
\* C37: while the commit input is not focused, the selected-suggestion
\* index lies between 0 and the number of loaded suggestions
C37_SelectionWithinSuggestions ==
    ~m.commitInput.focused =>
      /\ m.selectedSuggestion >= 0
      /\ m.selectedSuggestion <= Len(m.suggestions)


\* the inputs that are focused
FocusedInputs(mm) ==
    {name \in {"commit", "branch", "rebase"} :
        \/ name = "commit" /\ mm.commitInput.focused
        \/ name = "branch" /\ mm.branchInput.focused
        \/ name = "rebase" /\ mm.rebaseInput.focused}

\* C38: at most one text input is focused; the commit input is focused only
\* on the commit tab, the branch input only on the branches tab, the rebase
\* input only in the rebase sub-mode of the tools tab; while an input is
\* focused no key press and no message changes the tab or the tools sub-mode
C38_FocusFollowsTab ==
    /\ Cardinality(FocusedInputs(m)) <= 1
    /\ m.commitInput.focused => m.tab = "commit"
    /\ m.branchInput.focused => m.tab = "branches"
    /\ m.rebaseInput.focused => m.tab = "tools" /\ m.toolMode = "rebase"
    /\ anyInputFocused(m) =>
          \A e \in Events :
              LET after == Update(m, e).m IN
              after.tab = m.tab /\ after.toolMode = m.toolMode

\* the rebase input is focused and has stayed so through a key press or a
\* message
C38_Witness ==
    /\ m.rebaseInput.focused
    /\ prev.tab = "tools"
    /\ prev.toolMode = "rebase"


\* ------------------------------------------------------------------------
\* Property of the conflicts view (SpecConflicts)
\* ------------------------------------------------------------------------
\* C39: the workspace shows the conflicts view only while the loaded
\* conflict list is not empty
C39_ConflictsViewOnlyWithConflicts ==
    m.viewMode = "conflicts" => m.conflicts # <<>>


\* ------------------------------------------------------------------------
\* Property of the line-count rules (SpecLineRules)
\* ------------------------------------------------------------------------
\* C40: for a modified file that matches none of the path rules, the rule
\* "total changed lines < 10 -> fix" decides the type only when the diff
\* has no added and no removed line; a diff with at least one changed line
\* is decided by an earlier rule (more removed than added, functions
\* present, added > 2 * removed, balanced delta) or by the final feat
C40_SmallTotalOnlyForEmptyDiff ==
    ( /\ fa.pc = "typed"
      /\ IsModified(fa.status)
      /\ ~DocLike(fa.file) /\ ~TestLike(fa.file)
      /\ ~ConfigLike(fa.file) /\ ~IsManifest(fa.file) ) =>
      LET a == fa.diff.LinesAdded
          r == fa.diff.LinesRemoved
          F == fa.diff.Functions
          earlier == \/ containsBugFixKeywords(fa.diff)
                     \/ F # <<>>
                     \/ a > 2 * r
                     \/ a > 0 /\ r > 0 /\ abs(a - r) < 10
          small == ~earlier /\ a + r < 10
      IN  /\ small => a = 0 /\ r = 0 /\ fa.type = "fix"
          /\ (a + r > 0 /\ ~earlier) => a + r >= 10 /\ fa.type = "feat"

\* a modified source file whose diff has no changed line is typed fix by
\* the small-total rule
C40_Witness ==
    /\ fa.pc = "typed"
    /\ fa.status = <<" ", "M">>
    /\ fa.file = <<"m", "a", "i", "n", ".", "g", "o">>
    /\ fa.diff.LinesAdded = 0
    /\ fa.diff.LinesRemoved = 0
    /\ fa.diff.Functions = <<>>
    /\ fa.type = "fix"

====
